---- MODULE Spec2Model ----
(***************************************************************************)
(* State synchronisation between an ephemeral sandbox and object storage   *)
(* (src/src/gateway/sync.ts, the restore engine of src/unnamed/part_002)   *)
(* and the bounded command runner, the process cleanup and the admin API   *)
(* handlers of src/unnamed/part_001.                                       *)
(*                                                                         *)
(* Strings are sequences of lexemes (tokens): a path or key is a           *)
(* sequence such as <<"/root/.openclaw", "/", "a", ".json">>.  length,     *)
(* slice, includes, endsWith and concatenation act on that sequence.       *)
(* File content is the sequence of its chunks; "" is <<>>.                 *)
(***************************************************************************)
EXTENDS Integers, Sequences, FiniteSets, TLC

VARIABLES
    bucketBound,  \* env.MOLTBOT_BUCKET is configured
    fs,           \* sandbox filesystem: path -> content
    bucket,       \* object storage: key -> value
    clock,        \* wall clock read by Date
    sync,         \* syncToR2 passes: pass id -> locals of the pass
    restore,      \* restoreFromR2: locals of the pass
    exec,         \* execCommand: locals of the invocation
    log,          \* calls made on the collaborators, in order
    faults,       \* rejections of collaborator calls still to come
    hangs,        \* sandbox primitives that never settle
    procs,        \* processes of the sandbox, as listProcesses reports them
    admin,        \* admin requests: request id -> locals of the handler
    parse,        \* a raw stream and what the parser made of it
    wait,         \* waitForProcess: the polled process and the locals of the call
    extract       \* the output of the device listing and what GET /devices made of it

vars == <<bucketBound, fs, bucket, clock, sync, restore, exec, log, faults, hangs, procs, admin, parse, wait,
          extract>>

(***************************************************************************)
(* Bounds                                                                  *)
(***************************************************************************)
MaxFiles == 2      \* files in the initial sandbox
MaxResync == 1     \* files in the initial sandbox of a two-pass run
MaxStale == 2      \* objects in the initial bucket of a sync run
MaxOld == 1        \* objects in the initial bucket of a round-trip run
MaxObjects == 5    \* objects in the initial bucket of a restore run
MaxClock == 1      \* largest clock value
PageSize == 1      \* objects per listing page
MaxFaults == 1     \* rejections injected in a run with failing collaborators
MaxDevices == 2    \* pending devices a listing reports
MaxProcs == 6      \* processes in the initial process table

MaxRaw == 5        \* lexemes in a raw stream handed to the parser
MaxTimeoutMs == 4  \* largest timeout of a waitForProcess call
MaxIntervalMs == 2 \* largest poll interval of a waitForProcess call
MaxStdout == 5     \* lexemes in the output of the device listing

(***************************************************************************)
(* String helpers                                                          *)
(***************************************************************************)
Range(s) == {s[i] : i \in 1..Len(s)}

\* lexemes that contain another lexeme as a proper substring
SubstringPairs == {<<"complete", "omplete">>}

TokenHas(t, n) == t = n \/ <<t, n>> \in SubstringPairs

\* String.prototype.includes for a one-lexeme needle
Includes(s, n) == \E i \in 1..Len(s) : TokenHas(s[i], n)

\* String.prototype.includes for a needle of several lexemes
IncludesSeq(s, n) ==
    \E i \in 1..Len(s) : i + Len(n) - 1 <= Len(s) /\ SubSeq(s, i, i + Len(n) - 1) = n

StartsWith(s, p) == Len(p) <= Len(s) /\ SubSeq(s, 1, Len(p)) = p

EndsWith(s, t) == Len(s) > 0 /\ s[Len(s)] = t

\* String.prototype.slice(n)
Slice(s, n) == SubSeq(s, n + 1, Len(s))

\* String.prototype.lastIndexOf('/'), 1-based, 0 when there is none
LastIndexOfSlash(s) ==
    IF \E i \in 1..Len(s) : s[i] = "/"
    THEN CHOOSE i \in 1..Len(s) : s[i] = "/" /\ \A j \in (i + 1)..Len(s) : s[j] # "/"
    ELSE 0

\* lexicographic order of keys, as the bucket lists them
TokenOrder ==
    <<".last-sync", "/", "\"", "\\n", ".bak", ".git", ".json", ".jsonl", ".lock", ".log",
      ".md", ".tmp", "/root/.clawdbot", "/root/.openclaw", "/root/clawd", "I", "a", "b", "c",
      "complete", "d", "h", "k", "old", "openclaw", "s", "skills", "workspace", "{", "}">>

TokenRank(t) == CHOOSE i \in 1..Len(TokenOrder) : TokenOrder[i] = t

RECURSIVE KeyLess(_, _)
KeyLess(a, b) ==
    IF a = <<>> THEN b # <<>>
    ELSE IF b = <<>> THEN FALSE
    ELSE IF Head(a) = Head(b) THEN KeyLess(Tail(a), Tail(b))
    ELSE TokenRank(Head(a)) < TokenRank(Head(b))

RECURSIVE SortKeys(_)
SortKeys(S) ==
    IF S = {} THEN <<>>
    ELSE LET m == CHOOSE k \in S : \A o \in S \ {k} : KeyLess(k, o)
         IN  <<m>> \o SortKeys(S \ {m})

RECURSIVE SelectPaths(_, _)
SelectPaths(s, S) ==
    IF s = <<>> THEN <<>>
    ELSE (IF Head(s) \in S THEN <<Head(s)>> ELSE <<>>) \o SelectPaths(Tail(s), S)

(***************************************************************************)
(* Directories, prefixes and the marker                                    *)
(***************************************************************************)
OPENCLAW_DIR == <<"/root/.openclaw">>
CLAWDBOT_DIR == <<"/root/.clawdbot">>
CLAWD_DIR == <<"/root/clawd">>
SKILLS_DIR == <<"/root/clawd", "/", "skills">>

LAST_SYNC_KEY == <<".last-sync">>
LAST_SYNC_FILE == <<"/root/.openclaw", "/", ".last-sync">>

\* the three trees of a sync pass: directory, key prefix, excluded directories
SyncTrees(configDir) ==
    <<[dir |-> configDir, prefix |-> "openclaw", exclude |-> {}],
      [dir |-> CLAWD_DIR, prefix |-> "workspace", exclude |-> {"skills"}],
      [dir |-> SKILLS_DIR, prefix |-> "skills", exclude |-> {}]>>

\* the skills prefix is restored like the other two
RESTORE_PREFIXES_WithSkills ==
    <<[prefix |-> <<"openclaw", "/">>, dir |-> OPENCLAW_DIR],
      [prefix |-> <<"workspace", "/">>, dir |-> CLAWD_DIR],
      [prefix |-> <<"skills", "/">>, dir |-> SKILLS_DIR]>>

RESTORE_PREFIXES ==
    <<[prefix |-> <<"openclaw", "/">>, dir |-> OPENCLAW_DIR],
      [prefix |-> <<"workspace", "/">>, dir |-> CLAWD_DIR]>>

SKIP_EXTENSIONS == {".jsonl", ".bak"}

(***************************************************************************)
(* The sandbox's find and its framed streams                               *)
(***************************************************************************)
\* find <dir> -type f -not -path "*/<d>/*" -not -path "*/.git/*"
\*      -not -name "*.lock" -not -name "*.log" -not -name "*.tmp"
FindMatches(path, dirPath, excludeDirs) ==
    /\ StartsWith(path, dirPath \o <<"/">>)
    /\ \A d \in excludeDirs : ~IncludesSeq(path, <<"/", d, "/">>)
    /\ ~IncludesSeq(path, <<"/", ".git", "/">>)
    /\ ~EndsWith(path, ".lock")
    /\ ~EndsWith(path, ".log")
    /\ ~EndsWith(path, ".tmp")

\* the -not -path "*/<d>/*" arguments are left out of the command
Find_WithoutExcludeArgs(files, dirPath, excludeDirs) ==
    SortKeys({p \in DOMAIN files : FindMatches(p, dirPath, {})})

Find(files, dirPath, excludeDirs) ==
    SortKeys({p \in DOMAIN files : FindMatches(p, dirPath, excludeDirs)})

\* A raw stream is a sequence of lexemes: a run of characters, or the text of
\* one JSON value (evt is the value it decodes to).  Two newlines in a row
\* are always the one lexeme "\n\n".
NoEvent == [type |-> "", data |-> <<>>]

Chars(text) == [kind |-> "chars", text |-> text, evt |-> NoEvent]

Json(evt) == [kind |-> "json", text |-> "", evt |-> evt]

DATA_PREFIX == Chars("data: ")

SEPARATOR == Chars("\n\n")

NEWLINE == Chars("\n")

SPACE == Chars(" ")

\* the frames the sandbox writes, one per event: "data: {JSON}\n\n"
Frames(events) ==
    [i \in 1..(3 * Len(events)) |->
        CASE i % 3 = 1 -> DATA_PREFIX
          [] i % 3 = 2 -> Json(events[(i + 1) \div 3])
          [] OTHER -> SEPARATOR]

ExecStream(files, dirPath, excludeDirs) ==
    Frames(<<[type |-> "stdout", data |-> Find(files, dirPath, excludeDirs)]>>)

ReadFileStream(files, path) ==
    Frames(<<[type |-> "metadata", data |-> <<>>]>>
           \o [i \in 1..Len(files[path]) |-> [type |-> "chunk", data |-> <<files[path][i]>>]]
           \o <<[type |-> "complete", data |-> <<>>]>>)

\* the positions of the separator in raw, and the k-th of them
Separators(raw) == {i \in 1..Len(raw) : raw[i] = SEPARATOR}

NthSeparator(raw, k) ==
    CHOOSE i \in Separators(raw) : Cardinality({j \in Separators(raw) : j <= i}) = k

\* raw.split('\n\n'): the blocks before, between and after the separators
SplitBlocks(raw) ==
    LET n == Cardinality(Separators(raw))
    IN [k \in 1..(n + 1) |->
           SubSeq(raw,
                  IF k = 1 THEN 1 ELSE NthSeparator(raw, k - 1) + 1,
                  IF k = n + 1 THEN Len(raw) ELSE NthSeparator(raw, k) - 1)]

Blanks == {SPACE, NEWLINE, SEPARATOR}

\* String.prototype.trim: from the first to the last lexeme that is no blank
TrimBlock(block) ==
    LET inked == {i \in 1..Len(block) : block[i] \notin Blanks}
    IN IF inked = {} THEN <<>>
       ELSE SubSeq(block, CHOOSE i \in inked : \A j \in inked : i <= j,
                          CHOOSE i \in inked : \A j \in inked : j <= i)

\* line.startsWith('data: ') ? line.slice(6) : line
StripPrefix(line) == IF line # <<>> /\ Head(line) = DATA_PREFIX THEN Tail(line) ELSE line

\* JSON.parse: the text is one JSON value, with blanks allowed around it
JSONParse(jsonStr) ==
    LET text == TrimBlock(jsonStr)
    IN IF Len(text) = 1 /\ text[1].kind = "json"
       THEN [ok |-> TRUE, skip |-> FALSE, value |-> text[1].evt]
       ELSE [ok |-> FALSE, skip |-> FALSE, value |-> NoEvent]

\* one turn of the loop of parseSSEEvents: an empty line is skipped, any other
\* goes through JSON.parse
ParseBlock(block) ==
    LET line == TrimBlock(block)
    IN IF line = <<>> THEN [ok |-> FALSE, skip |-> TRUE, value |-> NoEvent]
       ELSE JSONParse(StripPrefix(line))

IsParsed(turn) == turn.ok

\* the first block that fails to decode ends the loop
ParseBlocks_StopsAtBadBlock(blocks) ==
    LET turns == [k \in 1..Len(blocks) |-> ParseBlock(blocks[k])]
        bad == {k \in 1..Len(blocks) : ~turns[k].ok /\ ~turns[k].skip}
        stop == IF bad = {} THEN Len(blocks) + 1
                ELSE CHOOSE k \in bad : \A o \in bad : k <= o
        pushed == SelectSeq(SubSeq(turns, 1, stop - 1), IsParsed)
    IN [i \in 1..Len(pushed) |-> pushed[i].value]

\* the loop of parseSSEEvents over the blocks: the values pushed, in order
ParseBlocks(blocks) ==
    LET turns == [k \in 1..Len(blocks) |-> ParseBlock(blocks[k])]
        pushed == SelectSeq(turns, IsParsed)
    IN [i \in 1..Len(pushed) |-> pushed[i].value]

parseSSEEvents(raw) == ParseBlocks(SplitBlocks(raw))

isCleanPath(path) ==
    /\ ~(Includes(path, "\"") \/ Includes(path, "{") \/ Includes(path, "}"))
    /\ ~(Includes(path, "\\n") \/ Includes(path, "\\\\"))
    /\ ~(Includes(path, "timestamp") /\ Includes(path, "data"))
    /\ ~(Includes(path, "tdout") \/ Includes(path, "omplete"))
    /\ ~Includes(path, "exitCode")

StartsWithSlash(path) ==
    path # <<>> /\ Head(path) \in {"/", "/root/.openclaw", "/root/.clawdbot", "/root/clawd"}

RECURSIVE StdoutPaths(_)
StdoutPaths(events) ==
    IF events = <<>> THEN <<>>
    ELSE (IF Head(events).type = "stdout" THEN Head(events).data ELSE <<>>)
         \o StdoutPaths(Tail(events))

RECURSIVE FilterPaths(_)
FilterPaths(paths) ==
    IF paths = <<>> THEN <<>>
    ELSE (IF Head(paths) # <<>> /\ StartsWithSlash(Head(paths)) /\ isCleanPath(Head(paths))
          THEN <<Head(paths)>> ELSE <<>>) \o FilterPaths(Tail(paths))

\* the stream is read into raw once, and raw is parsed into events once
listContainerFiles(files, dirPath, excludeDirs) ==
    LET listed == {FilterPaths(StdoutPaths(events)) :
                      events \in {parseSSEEvents(raw) :
                                     raw \in {ExecStream(files, dirPath, excludeDirs)}}}
    IN CHOOSE paths \in listed : TRUE

\* fileContent = evt.data: each chunk replaces the content read so far
RECURSIVE ChunkData_LastChunkOnly(_)
ChunkData_LastChunkOnly(events) ==
    IF events = <<>> THEN <<>>
    ELSE IF \E i \in 2..Len(events) : events[i].type = "chunk"
         THEN ChunkData_LastChunkOnly(Tail(events))
    ELSE (IF Head(events).type = "chunk" THEN Head(events).data ELSE <<>>)

RECURSIVE ChunkData(_)
ChunkData(events) ==
    IF events = <<>> THEN <<>>
    ELSE (IF Head(events).type = "chunk" THEN Head(events).data ELSE <<>>)
         \o ChunkData(Tail(events))

\* the fileContent that syncDirectory extracts from a file's read stream
FileContent(files, path) ==
    LET read == {ChunkData(events) :
                    events \in {parseSSEEvents(raw) : raw \in {ReadFileStream(files, path)}}}
    IN CHOOSE fileContent \in read : TRUE

IdleParse == [pc |-> "idle", raw |-> <<>>, events |-> <<>>, fileContent |-> <<>>]

\* a raw stream is read: the parse and the content extraction of syncDirectory
ParseStream ==
    /\ parse.pc = "idle"
    /\ LET events == parseSSEEvents(parse.raw)
       IN parse' = [parse EXCEPT !.pc = "done", !.events = events,
                                 !.fileContent = ChunkData(events)]
    /\ UNCHANGED <<bucketBound, extract, wait, fs, bucket, clock, sync, restore, exec, log, faults,
                   hangs, procs, admin>>

\* the slice keeps the separator of the path
R2Key_KeepsSeparator(filePath, containerDir, r2Prefix) ==
    <<r2Prefix, "/">> \o Slice(filePath, Len(containerDir))

\* the key syncDirectory derives from a listed path
R2Key(filePath, containerDir, r2Prefix) ==
    <<r2Prefix, "/">> \o Slice(filePath, Len(containerDir) + 1)

(***************************************************************************)
(* The JSON payload in the output of the CLI                               *)
(***************************************************************************)
\* The output is a sequence of lexemes: an opening brace, a closing brace, the
\* text of one member of a JSON object, or a run of other characters.
OPEN == "{"
CLOSE == "}"
MEMBER == "\"k\":1"
OTHER_TEXT == "text"

NoMatch == [matched |-> FALSE, text |-> <<>>]

\* stdout.match(/\{[\s\S]*\}/): the leftmost match starts at the first opening
\* brace; the star is greedy, so it ends at the last closing brace after it
JsonMatch(stdout) ==
    LET opens == {i \in 1..Len(stdout) : stdout[i] = OPEN}
        first == CHOOSE i \in opens : \A j \in opens : i <= j
        closes == {i \in 1..Len(stdout) : stdout[i] = CLOSE /\ i > first}
        last == CHOOSE i \in closes : \A j \in closes : j <= i
    IN IF opens = {} \/ closes = {} THEN NoMatch
       ELSE [matched |-> TRUE, text |-> SubSeq(stdout, first, last)]

\* the braces open and not yet closed after the first i lexemes of a text
Depth(text, i) ==
    Cardinality({j \in 1..i : text[j] = OPEN}) - Cardinality({j \in 1..i : text[j] = CLOSE})

\* JSON.parse on a text that starts with a brace: it is one object, whose
\* members are member texts and objects, or the parse throws
ParseJsonObject(text) ==
    IF /\ Len(text) >= 2
       /\ text[1] = OPEN
       /\ \A i \in 1..Len(text) : text[i] # OTHER_TEXT
       /\ \A i \in 1..(Len(text) - 1) : Depth(text, i) > 0
       /\ Depth(text, Len(text)) = 0
    THEN [ok |-> TRUE, value |-> SubSeq(text, 2, Len(text) - 1)]
    ELSE [ok |-> FALSE, value |-> <<>>]

\* part_001 171-179: what the handler of GET /devices resolves with
DevicesBody(stdout) ==
    LET jsonMatch == JsonMatch(stdout)
        parsed == ParseJsonObject(jsonMatch.text)
    IN IF jsonMatch.matched /\ parsed.ok
       THEN [parsed |-> TRUE, value |-> parsed.value, raw |-> <<>>]
       ELSE [parsed |-> FALSE, value |-> <<>>,
             raw |-> IF stdout # <<>> THEN stdout ELSE <<"No output from CLI">>]

IdleExtract == [pc |-> "idle", stdout |-> <<>>, body |-> DevicesBody(<<>>)]

\* execCommand returned stdout and the handler makes its result of it
ExtractPayload ==
    /\ extract.pc = "idle"
    /\ extract' = [extract EXCEPT !.pc = "done", !.body = DevicesBody(extract.stdout)]
    /\ UNCHANGED <<bucketBound, parse, wait, fs, bucket, clock, sync, restore, exec, log, faults,
                   hangs, procs, admin>>

(***************************************************************************)
(* Object storage                                                          *)
(***************************************************************************)
\* a put adds to what the key holds
Put_AppendsToExisting(b, key, val) ==
    [k \in DOMAIN b \cup {key} |->
        IF k = key THEN (IF key \in DOMAIN b THEN b[key] ELSE <<>>) \o val ELSE b[k]]

Put(b, key, val) == [k \in DOMAIN b \cup {key} |-> IF k = key THEN val ELSE b[k]]

Delete(b, key) == [k \in DOMAIN b \ {key} |-> b[k]]

\* list({prefix, cursor}): one page of keys in order, after the cursor
ListPage(b, prefix, cursor) ==
    LET all == SortKeys({k \in DOMAIN b :
                            /\ StartsWith(k, prefix)
                            /\ (cursor = <<>> \/ KeyLess(cursor, k))})
        n == IF Len(all) < PageSize THEN Len(all) ELSE PageSize
    IN  [objects |-> SubSeq(all, 1, n),
         truncated |-> Len(all) > PageSize,
         cursor |-> IF n > 0 THEN all[n] ELSE <<>>]

isCorruptedKey(key) == Includes(key, "\"") \/ Includes(key, "{") \/ Includes(key, "\\n")

RECURSIVE DeleteCorrupted(_, _)
DeleteCorrupted(b, keys) ==
    IF keys = <<>> THEN b
    ELSE DeleteCorrupted(IF isCorruptedKey(Head(keys)) THEN Delete(b, Head(keys)) ELSE b,
                         Tail(keys))

(***************************************************************************)
(* Values and call log                                                     *)
(***************************************************************************)
EmptyMap == [k \in {} |-> <<>>]

\* Date.prototype.toISOString: a string whose order is the order of the times
ISO_STRINGS == <<"t0", "t1", "t2", "t3", "t4">>

ToISOString(t) == <<ISO_STRINGS[t + 1]>>

\* JavaScript return values
JsUndefined == [type |-> "undefined", value |-> "undefined"]
JsBoolean(b) == [type |-> "boolean", value |-> IF b THEN "true" ELSE "false"]
JsNumber(n) == [type |-> "number", value |-> ToString(n)]

Call(who, op, arg, val) == [who |-> who, op |-> op, arg |-> arg, val |-> val]

(***************************************************************************)
(* syncToR2                                                                *)
(***************************************************************************)
Passes == {1, 2}

NoResult == [success |-> FALSE, error |-> "pending", lastSync |-> <<>>, synced |-> 0]

Failure(error) == [success |-> FALSE, error |-> error, lastSync |-> <<>>, synced |-> 0]

Success(now, totalFiles) ==
    [success |-> TRUE, error |-> "", lastSync |-> now, synced |-> totalFiles]

IdlePass ==
    [pc |-> "idle", configDir |-> <<>>, cursor |-> <<>>, tree |-> 0, files |-> <<>>,
     idx |-> 0, count |-> 0, totalFiles |-> 0, result |-> NoResult,
     fs0 |-> EmptyMap, bucket0 |-> EmptyMap, deleted |-> {}, listed |-> {}, puts |-> <<>>,
     failed |-> {}, now |-> <<>>]

SyncWho(p) == <<"sync", p>>

\* a call on a collaborator may reject while rejections are left to inject
MayFail == IF faults > 0 THEN BOOLEAN ELSE {FALSE}

Rejections(S) == {F \in SUBSET S : Cardinality(F) <= faults}

Count(b) == IF b THEN 1 ELSE 0

\* a sandbox primitive that never settles
Hangs(primitive) == primitive \in hangs

FailedCall(op, arg) == [op |-> op, arg |-> arg]

\* the config directories are probed before the binding is looked at
SyncStart_ProbesBeforeBinding(p) ==
    /\ sync[p].pc = "idle"
    /\ ~Hangs("execStream")
    /\ LET primary == listContainerFiles(fs, OPENCLAW_DIR, {})
           legacy == listContainerFiles(fs, CLAWDBOT_DIR, {})
           configDir == IF Len(primary) > 0 THEN OPENCLAW_DIR
                        ELSE IF Len(legacy) > 0 THEN CLAWDBOT_DIR
                        ELSE <<>>
           probes == <<Call(SyncWho(p), "execStream", OPENCLAW_DIR, <<>>)>>
                     \o (IF Len(primary) > 0 THEN <<>>
                         ELSE <<Call(SyncWho(p), "execStream", CLAWDBOT_DIR, <<>>)>>)
           snap == [sync[p] EXCEPT !.fs0 = fs, !.bucket0 = bucket]
       IN  /\ log' = log \o probes
           /\ IF configDir = <<>>
              THEN sync' = [sync EXCEPT ![p] =
                       [snap EXCEPT !.pc = "done", !.result = Failure("Nothing to sync")]]
              ELSE IF ~bucketBound
              THEN sync' = [sync EXCEPT ![p] =
                       [snap EXCEPT !.pc = "done",
                                    !.result = Failure("R2 bucket binding not configured")]]
              ELSE sync' = [sync EXCEPT ![p] =
                       [snap EXCEPT !.pc = "sweep", !.configDir = configDir]]
    /\ UNCHANGED <<bucketBound, extract, parse, wait, faults, hangs, procs, admin, fs, bucket, clock, restore, exec>>

\* sync.ts 20-50: binding check and probe of the two config directories
SyncStart(p) ==
    /\ sync[p].pc = "idle"
    /\ bucketBound => ~Hangs("execStream")
    /\ \E f1, f2 \in MayFail :
        LET primary == IF f1 THEN <<>> ELSE listContainerFiles(fs, OPENCLAW_DIR, {})
            legacy == IF f2 THEN <<>> ELSE listContainerFiles(fs, CLAWDBOT_DIR, {})
            configDir == IF Len(primary) > 0 THEN OPENCLAW_DIR
                         ELSE IF Len(legacy) > 0 THEN CLAWDBOT_DIR
                         ELSE <<>>
            probes == <<Call(SyncWho(p), "execStream", OPENCLAW_DIR, <<>>)>>
                      \o (IF Len(primary) > 0 THEN <<>>
                          ELSE <<Call(SyncWho(p), "execStream", CLAWDBOT_DIR, <<>>)>>)
            rejected == {FailedCall("execStream", OPENCLAW_DIR) : x \in {f1} \ {FALSE}}
                        \cup {FailedCall("execStream", CLAWDBOT_DIR) : x \in {f2} \ {FALSE}}
            snap == [sync[p] EXCEPT !.fs0 = fs, !.bucket0 = bucket, !.failed = rejected]
        IN  /\ f2 => Len(primary) = 0
            /\ (f1 \/ f2) => bucketBound
            /\ Count(f1) + Count(f2) <= faults
            /\ faults' = faults - (Count(f1) + Count(f2))
            /\ IF ~bucketBound
               THEN /\ sync' = [sync EXCEPT ![p] =
                           [snap EXCEPT !.pc = "done",
                                        !.result = Failure("R2 bucket binding not configured")]]
                    /\ log' = log
               ELSE IF configDir = <<>>
               THEN /\ sync' = [sync EXCEPT ![p] =
                           [snap EXCEPT !.pc = "done", !.result = Failure("Nothing to sync")]]
                    /\ log' = log \o probes
               ELSE /\ sync' = [sync EXCEPT ![p] =
                           [snap EXCEPT !.pc = "sweep", !.configDir = configDir]]
                    /\ log' = log \o probes
    /\ UNCHANGED <<bucketBound, extract, parse, wait, hangs, procs, admin, fs, bucket, clock, restore, exec>>

\* the sweep stops after the first page of the listing
cleanCorruptedR2Keys_FirstPageOnly(p) ==
    /\ sync[p].pc = "sweep"
    /\ \E f \in MayFail :
        LET list == ListPage(bucket, <<>>, sync[p].cursor)
            hit == {k \in Range(list.objects) : isCorruptedKey(k)}
        IN  IF f
            THEN /\ sync' = [sync EXCEPT ![p] =
                        [@ EXCEPT !.pc = "threw",
                                  !.failed = @ \cup {FailedCall("list", sync[p].cursor)}]]
                 /\ log' = log \o <<Call(SyncWho(p), "list", sync[p].cursor, <<>>)>>
                 /\ faults' = faults - 1
                 /\ bucket' = bucket
            ELSE \E bad \in Rejections(hit) :
                 /\ bucket' = DeleteCorrupted(bucket,
                                  SelectPaths(list.objects, Range(list.objects) \ bad))
                 /\ sync' = [sync EXCEPT ![p] =
                        [@ EXCEPT !.deleted = @ \cup (hit \ bad), !.pc = "list", !.tree = 1,
                                  !.failed = @ \cup {FailedCall("delete", k) : k \in bad}]]
                 /\ log' = log \o <<Call(SyncWho(p), "list", sync[p].cursor, <<>>)>>
                         \o [i \in 1..Len(SelectPaths(list.objects, hit)) |->
                                Call(SyncWho(p), "delete", SelectPaths(list.objects, hit)[i], <<>>)]
                 /\ faults' = faults - Cardinality(bad)
    /\ UNCHANGED <<bucketBound, extract, parse, wait, hangs, procs, admin, fs, clock, restore, exec>>

\* sync.ts 236-260: one iteration of the do-while of cleanCorruptedR2Keys;
\* a rejected list is not caught (53), a rejected delete is (245-250)
cleanCorruptedR2Keys(p) ==
    /\ sync[p].pc = "sweep"
    /\ \E f \in MayFail :
        LET list == ListPage(bucket, <<>>, sync[p].cursor)
            hit == {k \in Range(list.objects) : isCorruptedKey(k)}
            cursor == IF list.truncated THEN list.cursor ELSE <<>>
        IN  IF f
            THEN /\ sync' = [sync EXCEPT ![p] =
                        [@ EXCEPT !.pc = "threw",
                                  !.failed = @ \cup {FailedCall("list", sync[p].cursor)}]]
                 /\ log' = log \o <<Call(SyncWho(p), "list", sync[p].cursor, <<>>)>>
                 /\ faults' = faults - 1
                 /\ bucket' = bucket
            ELSE \E bad \in Rejections(hit) :
                 /\ bucket' = DeleteCorrupted(bucket,
                                  SelectPaths(list.objects, Range(list.objects) \ bad))
                 /\ sync' = [sync EXCEPT ![p] =
                        [@ EXCEPT !.cursor = cursor,
                                  !.deleted = @ \cup (hit \ bad),
                                  !.pc = IF cursor # <<>> THEN "sweep" ELSE "list",
                                  !.tree = IF cursor # <<>> THEN 0 ELSE 1,
                                  !.failed = @ \cup {FailedCall("delete", k) : k \in bad}]]
                 /\ log' = log \o <<Call(SyncWho(p), "list", sync[p].cursor, <<>>)>>
                         \o [i \in 1..Len(SelectPaths(list.objects, hit)) |->
                                Call(SyncWho(p), "delete", SelectPaths(list.objects, hit)[i], <<>>)]
                 /\ faults' = faults - Cardinality(bad)
    /\ UNCHANGED <<bucketBound, extract, parse, wait, hangs, procs, admin, fs, clock, restore, exec>>

\* sync.ts 201: the listing that opens syncDirectory for the current tree; a
\* rejection ends the pass for the config tree (95-100) and is swallowed for
\* the workspace and skills trees (68-70, 76-78)
syncDirectoryList(p) ==
    /\ sync[p].pc = "list"
    /\ ~Hangs("execStream")
    /\ \E f \in MayFail :
        LET t == SyncTrees(sync[p].configDir)[sync[p].tree]
        IN  \E files \in {listContainerFiles(fs, t.dir, t.exclude)} :
            /\ faults' = faults - Count(f)
            /\ log' = log \o <<Call(SyncWho(p), "execStream", t.dir, <<>>)>>
            /\ IF ~f
               THEN sync' = [sync EXCEPT ![p] =
                       [@ EXCEPT !.files = files, !.idx = 1, !.count = 0, !.pc = "file",
                                 !.listed = @ \cup Range(files)]]
               ELSE sync' = [sync EXCEPT ![p] =
                       [@ EXCEPT !.failed = @ \cup {FailedCall("execStream", t.dir)},
                                 !.tree = IF @ = 1 \/ @ = 3 THEN @ ELSE @ + 1,
                                 !.pc = IF sync[p].tree = 1 THEN "done"
                                        ELSE IF sync[p].tree = 3 THEN "finish" ELSE "list",
                                 !.result = IF sync[p].tree = 1 THEN Failure("Sync error")
                                            ELSE @]]
    /\ UNCHANGED <<bucketBound, extract, parse, wait, hangs, procs, admin, fs, bucket, clock, restore, exec>>

\* a rejected read leaves the loop and ends the pass
syncDirectoryFile_RejectionAborts(p) ==
    /\ sync[p].pc = "file"
    /\ sync[p].idx <= Len(sync[p].files)
    /\ ~Hangs("readFileStream")
    /\ \E fRead \in MayFail :
        LET t == SyncTrees(sync[p].configDir)[sync[p].tree]
            filePath == sync[p].files[sync[p].idx]
            r2Key == R2Key(filePath, t.dir, t.prefix)
            fileContent == FileContent(fs, filePath)
            read == Call(SyncWho(p), "readFileStream", filePath, <<>>)
            put == Call(SyncWho(p), "put", r2Key, fileContent)
        IN  /\ faults' = faults - Count(fRead)
            /\ IF fRead
               THEN /\ bucket' = bucket
                    /\ sync' = [sync EXCEPT ![p] =
                           [@ EXCEPT !.pc = "done", !.result = Failure("Sync error"),
                                     !.failed = @ \cup {FailedCall("readFileStream", filePath)}]]
                    /\ log' = log \o <<read>>
               ELSE IF fileContent # <<>>
               THEN /\ bucket' = Put(bucket, r2Key, fileContent)
                    /\ sync' = [sync EXCEPT ![p] =
                           [@ EXCEPT !.idx = @ + 1, !.count = @ + 1,
                                     !.puts = Append(@, [key |-> r2Key, path |-> filePath])]]
                    /\ log' = log \o <<read, put>>
               ELSE /\ bucket' = bucket
                    /\ sync' = [sync EXCEPT ![p] = [@ EXCEPT !.idx = @ + 1]]
                    /\ log' = log \o <<read>>
    /\ UNCHANGED <<bucketBound, extract, parse, wait, hangs, procs, admin, fs, clock, restore, exec>>

\* the content is put whether or not the read gave any
syncDirectoryFile_PutsEmptyContent(p) ==
    /\ sync[p].pc = "file"
    /\ sync[p].idx <= Len(sync[p].files)
    /\ ~Hangs("readFileStream")
    /\ LET t == SyncTrees(sync[p].configDir)[sync[p].tree]
           filePath == sync[p].files[sync[p].idx]
           r2Key == R2Key(filePath, t.dir, t.prefix)
           fileContent == FileContent(fs, filePath)
       IN  /\ bucket' = Put(bucket, r2Key, fileContent)
           /\ sync' = [sync EXCEPT ![p] =
                  [@ EXCEPT !.idx = @ + 1, !.count = @ + 1,
                            !.puts = Append(@, [key |-> r2Key, path |-> filePath])]]
           /\ log' = log \o <<Call(SyncWho(p), "readFileStream", filePath, <<>>),
                               Call(SyncWho(p), "put", r2Key, fileContent)>>
    /\ UNCHANGED <<bucketBound, extract, parse, wait, faults, hangs, procs, admin, fs, clock, restore, exec>>

\* sync.ts 204-227: one iteration of the file loop of syncDirectory
syncDirectoryFile(p) ==
    /\ sync[p].pc = "file"
    /\ sync[p].idx <= Len(sync[p].files)
    /\ ~Hangs("readFileStream")
    /\ \E fRead, fPut \in MayFail :
        LET t == SyncTrees(sync[p].configDir)[sync[p].tree]
            filePath == sync[p].files[sync[p].idx]
            r2Key == R2Key(filePath, t.dir, t.prefix)
            fileContent == FileContent(fs, filePath)
            read == Call(SyncWho(p), "readFileStream", filePath, <<>>)
            put == Call(SyncWho(p), "put", r2Key, fileContent)
        IN  /\ ~(fRead /\ fPut)
            /\ fPut => fileContent # <<>>
            /\ faults' = faults - (Count(fRead) + Count(fPut))
            /\ IF fRead
               THEN /\ bucket' = bucket
                    /\ sync' = [sync EXCEPT ![p] =
                           [@ EXCEPT !.idx = @ + 1,
                                     !.failed = @ \cup {FailedCall("readFileStream", filePath)}]]
                    /\ log' = log \o <<read>>
               ELSE IF fPut
               THEN /\ bucket' = bucket
                    /\ sync' = [sync EXCEPT ![p] =
                           [@ EXCEPT !.idx = @ + 1,
                                     !.failed = @ \cup {FailedCall("put", r2Key)}]]
                    /\ log' = log \o <<read, put>>
               ELSE IF fileContent # <<>>
               THEN /\ bucket' = Put(bucket, r2Key, fileContent)
                    /\ sync' = [sync EXCEPT ![p] =
                           [@ EXCEPT !.idx = @ + 1, !.count = @ + 1,
                                     !.puts = Append(@, [key |-> r2Key, path |-> filePath])]]
                    /\ log' = log \o <<read, put>>
               ELSE /\ bucket' = bucket
                    /\ sync' = [sync EXCEPT ![p] = [@ EXCEPT !.idx = @ + 1]]
                    /\ log' = log \o <<read>>
    /\ UNCHANGED <<bucketBound, extract, parse, wait, hangs, procs, admin, fs, clock, restore, exec>>

\* sync.ts 229, 59-78: syncDirectory returns its count; on to the next tree
syncDirectoryReturn(p) ==
    /\ sync[p].pc = "file"
    /\ sync[p].idx > Len(sync[p].files)
    /\ sync' = [sync EXCEPT ![p] =
           [@ EXCEPT !.totalFiles = @ + sync[p].count,
                     !.tree = IF @ < 3 THEN @ + 1 ELSE @,
                     !.pc = IF sync[p].tree < 3 THEN "list" ELSE "finish"]]
    /\ UNCHANGED <<bucketBound, extract, parse, wait, faults, hangs, procs, admin, fs, bucket, clock, restore, exec, log>>

\* the marker is written and success reported whatever the total
syncToR2Finish_MarkerOnZero(p) ==
    /\ sync[p].pc = "finish"
    /\ \E t \in clock..MaxClock :
          LET now == ToISOString(t)
          IN  /\ clock' = t
              /\ log' = log \o <<Call(SyncWho(p), "put", LAST_SYNC_KEY, now)>>
              /\ bucket' = Put(bucket, LAST_SYNC_KEY, now)
              /\ sync' = [sync EXCEPT ![p] =
                     [@ EXCEPT !.pc = "done", !.result = Success(now, sync[p].totalFiles)]]
    /\ UNCHANGED <<bucketBound, extract, parse, wait, faults, hangs, procs, admin, fs, restore, exec>>

\* the lastSync returned is a second reading of the clock
syncToR2Finish_ReadsClockTwice(p) ==
    /\ sync[p].pc = "finish"
    /\ IF sync[p].totalFiles > 0
       THEN \E t \in clock..MaxClock, t2 \in clock..MaxClock, f \in MayFail :
               /\ t <= t2
               /\ clock' = t2
               /\ faults' = faults - Count(f)
               /\ log' = log \o <<Call(SyncWho(p), "put", LAST_SYNC_KEY, ToISOString(t))>>
               /\ IF f
                  THEN /\ bucket' = bucket
                       /\ sync' = [sync EXCEPT ![p] =
                              [@ EXCEPT !.pc = "done", !.result = Failure("Sync error"),
                                        !.failed = @ \cup {FailedCall("put", LAST_SYNC_KEY)}]]
                  ELSE /\ bucket' = Put(bucket, LAST_SYNC_KEY, ToISOString(t))
                       /\ sync' = [sync EXCEPT ![p] =
                              [@ EXCEPT !.pc = "done",
                                        !.result = Success(ToISOString(t2), sync[p].totalFiles)]]
       ELSE /\ sync' = [sync EXCEPT ![p] =
                   [@ EXCEPT !.pc = "done", !.result = Failure("Nothing to sync")]]
            /\ UNCHANGED <<clock, bucket, log, faults>>
    /\ UNCHANGED <<bucketBound, extract, parse, wait, hangs, procs, admin, fs, restore, exec>>

\* sync.ts 80-100: marker and result; a rejected put of the marker is caught
syncToR2Finish(p) ==
    /\ sync[p].pc = "finish"
    /\ IF sync[p].totalFiles > 0
       THEN \E t \in clock..MaxClock, f \in MayFail :
               LET now == ToISOString(t)
               IN  /\ clock' = t
                   /\ faults' = faults - Count(f)
                   /\ log' = log \o <<Call(SyncWho(p), "put", LAST_SYNC_KEY, now)>>
                   /\ IF f
                      THEN /\ bucket' = bucket
                           /\ sync' = [sync EXCEPT ![p] =
                                  [@ EXCEPT !.pc = "done", !.result = Failure("Sync error"),
                                            !.failed = @ \cup {FailedCall("put", LAST_SYNC_KEY)}]]
                      ELSE /\ bucket' = Put(bucket, LAST_SYNC_KEY, now)
                           /\ sync' = [sync EXCEPT ![p] =
                                  [@ EXCEPT !.pc = "done",
                                            !.result = Success(now, sync[p].totalFiles)]]
       ELSE /\ sync' = [sync EXCEPT ![p] =
                   [@ EXCEPT !.pc = "done", !.result = Failure("Nothing to sync")]]
            /\ UNCHANGED <<clock, bucket, log, faults>>
    /\ UNCHANGED <<bucketBound, extract, parse, wait, hangs, procs, admin, fs, restore, exec>>

\* sync.ts 80-81: the clock is read for the marker; syncToR2Finish is this step
\* and the next one taken with no other pass in between
syncToR2Stamp(p) ==
    /\ sync[p].pc = "finish"
    /\ IF sync[p].totalFiles > 0
       THEN \E t \in clock..MaxClock :
               /\ clock' = t
               /\ sync' = [sync EXCEPT ![p] = [@ EXCEPT !.pc = "marker", !.now = ToISOString(t)]]
       ELSE /\ sync' = [sync EXCEPT ![p] =
                   [@ EXCEPT !.pc = "done", !.result = Failure("Nothing to sync")]]
            /\ clock' = clock
    /\ UNCHANGED <<bucketBound, extract, parse, wait, faults, hangs, procs, admin, fs, restore, exec,
                   bucket, log>>

\* sync.ts 82-88: the put awaited at 82 reaches the bucket and the pass returns
syncToR2PutMarker(p) ==
    /\ sync[p].pc = "marker"
    /\ \E f \in MayFail :
          /\ faults' = faults - Count(f)
          /\ log' = log \o <<Call(SyncWho(p), "put", LAST_SYNC_KEY, sync[p].now)>>
          /\ IF f
             THEN /\ bucket' = bucket
                  /\ sync' = [sync EXCEPT ![p] =
                         [@ EXCEPT !.pc = "done", !.result = Failure("Sync error"),
                                   !.failed = @ \cup {FailedCall("put", LAST_SYNC_KEY)}]]
             ELSE /\ bucket' = Put(bucket, LAST_SYNC_KEY, sync[p].now)
                  /\ sync' = [sync EXCEPT ![p] =
                         [@ EXCEPT !.pc = "done",
                                   !.result = Success(sync[p].now, sync[p].totalFiles)]]
    /\ UNCHANGED <<bucketBound, extract, parse, wait, hangs, procs, admin, fs, restore, exec, clock>>


(***************************************************************************)
(* restoreFromR2                                                           *)
(***************************************************************************)
IdleRestore ==
    [pc |-> "idle", lastSync |-> <<>>, p |-> 0, cursor |-> <<>>, createdDirs |-> {},
     page |-> [objects |-> <<>>, truncated |-> FALSE, cursor |-> <<>>], idx |-> 0,
     count |-> 0, totalFiles |-> 0, ret |-> JsUndefined, written |-> <<>>,
     seen |-> <<>>, failed |-> {}]

RestoreWho == <<"restore", 0>>

\* the extension list names .json for .jsonl
shouldSkipKey_SkipsJson(key) ==
    \/ EndsWith(key, "/")
    \/ Includes(key, ".json") \/ Includes(key, ".bak")
    \/ Includes(key, "\"") \/ Includes(key, "{") \/ Includes(key, "\\n")

shouldSkipKey(key) ==
    \/ EndsWith(key, "/")
    \/ \E ext \in SKIP_EXTENSIONS : Includes(key, ext)
    \/ Includes(key, "\"") \/ Includes(key, "{") \/ Includes(key, "\\n")

\* the cache is not looked at
mkdirCached_NoCache(dir, cache) ==
    [calls |-> <<Call(RestoreWho, "mkdir", dir, <<>>)>>, cache |-> cache \cup {dir}]

\* part_002 149-157: the mkdir calls made and the cache afterwards
mkdirCached(dir, cache) ==
    [calls |-> IF dir \in cache THEN <<>> ELSE <<Call(RestoreWho, "mkdir", dir, <<>>)>>,
     cache |-> cache \cup {dir}]

\* the marker is read but its absence does not stop the restore
restoreFromR2Start_IgnoresMarker ==
    /\ restore.pc = "idle"
    /\ IF ~bucketBound
       THEN /\ restore' = [restore EXCEPT !.pc = "done", !.ret = JsBoolean(FALSE)]
            /\ log' = log
       ELSE /\ restore' = [restore EXCEPT
                   !.pc = "prefix", !.p = 1,
                   !.lastSync = IF LAST_SYNC_KEY \in DOMAIN bucket
                                THEN bucket[LAST_SYNC_KEY] ELSE <<>>]
            /\ log' = log \o <<Call(RestoreWho, "get", LAST_SYNC_KEY, <<>>)>>
    /\ UNCHANGED <<bucketBound, extract, parse, wait, faults, hangs, procs, admin, fs, bucket, clock, sync, exec>>

\* part_002 46-62: binding check and marker lookup
restoreFromR2Start ==
    /\ restore.pc = "idle"
    /\ IF ~bucketBound
       THEN /\ restore' = [restore EXCEPT !.pc = "done", !.ret = JsBoolean(FALSE)]
            /\ log' = log
       ELSE IF LAST_SYNC_KEY \notin DOMAIN bucket
       THEN /\ restore' = [restore EXCEPT !.pc = "done", !.ret = JsBoolean(FALSE)]
            /\ log' = log \o <<Call(RestoreWho, "get", LAST_SYNC_KEY, <<>>)>>
       ELSE /\ restore' = [restore EXCEPT !.pc = "prefix", !.p = 1,
                                          !.lastSync = bucket[LAST_SYNC_KEY]]
            /\ log' = log \o <<Call(RestoreWho, "get", LAST_SYNC_KEY, <<>>)>>
    /\ UNCHANGED <<bucketBound, extract, parse, wait, faults, hangs, procs, admin, fs, bucket, clock, sync, exec>>

\* part_002 53: the get of the marker is awaited outside any try; when it
\* rejects, restoreFromR2 throws
restoreFromR2StartThrows ==
    /\ restore.pc = "idle"
    /\ bucketBound
    /\ faults > 0
    /\ faults' = faults - 1
    /\ restore' = [restore EXCEPT !.pc = "threw",
                                  !.failed = @ \cup {FailedCall("get", LAST_SYNC_KEY)}]
    /\ log' = log \o <<Call(RestoreWho, "get", LAST_SYNC_KEY, <<>>)>>
    /\ UNCHANGED <<bucketBound, extract, parse, wait, hangs, procs, admin, fs, bucket, clock, sync, exec>>

\* part_002 64-71: restorePrefix threw; the loop of restoreFromR2 logs it and
\* goes on to the next prefix without the count of this one
\* the error of restorePrefix leaves restoreFromR2
PrefixThrew_EndsRestore(locals) == [locals EXCEPT !.pc = "threw"]

PrefixThrew(locals) == [locals EXCEPT !.pc = "prefix", !.p = @ + 1, !.count = 0]

Failed(locals, f, op, arg) ==
    IF f THEN [locals EXCEPT !.failed = @ \cup {FailedCall(op, arg)}] ELSE locals

\* part_002 97-102: restorePrefix starts on the next prefix
\* a rejected mkdir is swallowed by mkdirCached (151-155)
restorePrefixBegin ==
    /\ restore.pc = "prefix"
    /\ restore.p <= Len(RESTORE_PREFIXES)
    /\ \E f \in MayFail :
        LET m == mkdirCached(RESTORE_PREFIXES[restore.p].dir, {})
        IN  /\ faults' = faults - Count(f)
            /\ log' = log \o m.calls
            /\ restore' = [Failed(restore, f, "mkdir", RESTORE_PREFIXES[restore.p].dir)
                              EXCEPT !.pc = "page", !.cursor = <<>>, !.count = 0,
                                     !.createdDirs = m.cache, !.seen = <<>>]
    /\ UNCHANGED <<bucketBound, extract, parse, wait, hangs, procs, admin, fs, bucket, clock, sync, exec>>

\* part_002 105-108: one page of the listing
restorePrefixList ==
    /\ restore.pc = "page"
    /\ \E f \in MayFail :
          /\ faults' = faults - Count(f)
          /\ restore' =
                IF f THEN PrefixThrew(Failed(restore, f, "list",
                                             RESTORE_PREFIXES[restore.p].prefix))
                ELSE [restore EXCEPT
                        !.pc = "object", !.idx = 1,
                        !.page = ListPage(bucket, RESTORE_PREFIXES[restore.p].prefix,
                                          restore.cursor)]
    /\ log' = log \o <<Call(RestoreWho, "list", RESTORE_PREFIXES[restore.p].prefix,
                             restore.cursor)>>
    /\ UNCHANGED <<bucketBound, extract, parse, wait, hangs, procs, admin, fs, bucket, clock, sync, exec>>

\* the calls of one iteration that may reject: the mkdir when it is made, the
\* get, and the writeFile when the get resolved
ObjectFailures(mkdirs) ==
    {bad \in Rejections((IF mkdirs # <<>> THEN {"mkdir"} ELSE {}) \cup {"get", "writeFile"}) :
        ~({"get", "writeFile"} \subseteq bad)}

\* part_002 110-134: one iteration of the object loop; a rejected mkdir is
\* swallowed by mkdirCached, a rejected get or writeFile is caught at 131
restorePrefixObject ==
    /\ restore.pc = "object"
    /\ restore.idx <= Len(restore.page.objects)
    /\ LET key == restore.page.objects[restore.idx]
           prefix == RESTORE_PREFIXES[restore.p].prefix
           containerDir == RESTORE_PREFIXES[restore.p].dir
           relativePath == Slice(key, Len(prefix))
           containerPath == containerDir \o <<"/">> \o relativePath
           lastSlash == LastIndexOfSlash(containerPath)
           m == IF lastSlash > 1
                THEN mkdirCached(SubSeq(containerPath, 1, lastSlash - 1), restore.createdDirs)
                ELSE [calls |-> <<>>, cache |-> restore.createdDirs]
           next == [restore EXCEPT !.idx = @ + 1, !.seen = Append(@, key)]
           get == Call(RestoreWho, "get", key, <<>>)
           args == [op \in {"mkdir", "get", "writeFile"} |->
                      IF op = "mkdir" THEN SubSeq(containerPath, 1, lastSlash - 1)
                      ELSE IF op = "get" THEN key ELSE containerPath]
           rejected(bad) == {FailedCall(op, args[op]) : op \in bad}
       IN  IF shouldSkipKey(key) \/ relativePath = <<>>
           THEN /\ restore' = next
                /\ UNCHANGED <<fs, log, faults>>
           ELSE \E bad \in ObjectFailures(m.calls) :
                /\ faults' = faults - Cardinality(bad)
                /\ IF "get" \in bad \/ key \notin DOMAIN bucket
                   THEN /\ "writeFile" \notin bad
                        /\ restore' = [next EXCEPT !.createdDirs = m.cache,
                                                   !.failed = @ \cup rejected(bad)]
                        /\ log' = log \o m.calls \o <<get>>
                        /\ fs' = fs
                   ELSE /\ restore' =
                             IF "writeFile" \in bad
                             THEN [next EXCEPT !.createdDirs = m.cache,
                                               !.failed = @ \cup rejected(bad)]
                             ELSE [next EXCEPT
                                     !.createdDirs = m.cache, !.count = @ + 1,
                                     !.failed = @ \cup rejected(bad),
                                     !.written = Append(@, [key |-> key, path |-> containerPath])]
                        /\ fs' = IF "writeFile" \in bad THEN fs
                                 ELSE Put(fs, containerPath, bucket[key])
                        /\ log' = log \o m.calls
                                      \o <<get, Call(RestoreWho, "writeFile", containerPath,
                                                     bucket[key])>>
    /\ UNCHANGED <<bucketBound, extract, parse, wait, hangs, procs, admin, bucket, clock, sync, exec>>

\* the loop ends after the first page, truncated or not
restorePrefixPageEnd_StopsAfterFirstPage ==
    /\ restore.pc = "object"
    /\ restore.idx > Len(restore.page.objects)
    /\ restore' = [restore EXCEPT !.pc = "prefix", !.cursor = <<>>, !.p = @ + 1,
                                  !.totalFiles = @ + restore.count]
    /\ UNCHANGED <<bucketBound, extract, parse, wait, faults, hangs, procs, admin, fs, bucket, clock, sync, exec, log>>

\* part_002 136-143, 64-71: end of a page; end of the prefix
restorePrefixPageEnd ==
    /\ restore.pc = "object"
    /\ restore.idx > Len(restore.page.objects)
    /\ LET cursor == IF restore.page.truncated THEN restore.page.cursor ELSE <<>>
       IN  IF cursor # <<>>
           THEN restore' = [restore EXCEPT !.pc = "page", !.cursor = cursor]
           ELSE restore' = [restore EXCEPT !.pc = "prefix", !.cursor = cursor,
                                           !.p = @ + 1,
                                           !.totalFiles = @ + restore.count]
    /\ UNCHANGED <<bucketBound, extract, parse, wait, faults, hangs, procs, admin, fs, bucket, clock, sync, exec, log>>

\* part_002 73-85: marker file and result
restoreFromR2Finish ==
    /\ restore.pc = "prefix"
    /\ restore.p > Len(RESTORE_PREFIXES)
    /\ IF restore.totalFiles > 0
       THEN \E f \in MayFail :
            /\ faults' = faults - Count(f)
            /\ fs' = IF f THEN fs ELSE Put(fs, LAST_SYNC_FILE, restore.lastSync)
            /\ log' = log \o <<Call(RestoreWho, "writeFile", LAST_SYNC_FILE, restore.lastSync)>>
            /\ restore' = [Failed(restore, f, "writeFile", LAST_SYNC_FILE)
                              EXCEPT !.pc = "done", !.ret = JsBoolean(TRUE)]
       ELSE /\ restore' = [restore EXCEPT !.pc = "done", !.ret = JsBoolean(FALSE)]
            /\ UNCHANGED <<fs, log, faults>>
    /\ UNCHANGED <<bucketBound, extract, parse, wait, hangs, procs, admin, bucket, clock, sync, exec>>

\* the sandbox is ephemeral: a restart brings up an empty filesystem
ColdStart ==
    /\ fs # EmptyMap
    /\ restore.pc = "idle"
    /\ \A p \in Passes : sync[p].pc \in {"idle", "done"}
    /\ fs' = EmptyMap
    /\ UNCHANGED <<bucketBound, extract, parse, wait, faults, hangs, procs, admin, bucket, clock, sync, restore, exec, log>>

(***************************************************************************)
(* execCommand                                                             *)
(***************************************************************************)
CLI_TIMEOUT_MS == 15000
DONE_MARKER == "__EXEC_DONE__"
HARD_WAIT_MS == 10000
MARGIN_MS == 2000
READ_TIMEOUT_MS == 5000
RETRY_SLEEP_MS == 3000

Whitespace == {" ", "\n"}

\* String.prototype.replace(DONE_MARKER, ''): the first occurrence only
RECURSIVE ReplaceMarker(_)
ReplaceMarker(s) ==
    IF s = <<>> THEN <<>>
    ELSE IF Head(s) = DONE_MARKER THEN Tail(s)
    ELSE <<Head(s)>> \o ReplaceMarker(Tail(s))

RECURSIVE TrimStart(_)
TrimStart(s) == IF s # <<>> /\ Head(s) \in Whitespace THEN TrimStart(Tail(s)) ELSE s

RECURSIVE TrimEnd(_)
TrimEnd(s) ==
    IF s # <<>> /\ s[Len(s)] \in Whitespace THEN TrimEnd(SubSeq(s, 1, Len(s) - 1)) ELSE s

Trim(s) == TrimEnd(TrimStart(s))

Min(a, b) == IF a < b THEN a ELSE b

Null == [null |-> TRUE, text |-> <<>>]
Text(s) == [null |-> FALSE, text |-> s]

HasMarker(r) == ~r.null /\ DONE_MARKER \in Range(r.text)

Stripped(r) == Trim(ReplaceMarker(r.text))

\* part_001 19-39: the read raced against its timer
readFile(file, outcome) ==
    IF outcome = "resolve" /\ file.exists THEN Text(file.text) ELSE Null

ReadOutcomes(file) == (IF file.exists THEN {"resolve"} ELSE {}) \cup {"reject", "timeout"}

ReadCost(outcome) == IF outcome = "timeout" THEN READ_TIMEOUT_MS ELSE 0

IdleExec ==
    [pc |-> "idle", startMode |-> "ok", timeoutMs |-> CLI_TIMEOUT_MS, output |-> <<>>,
     tag |-> 0, file |-> [exists |-> FALSE, text |-> <<>>], stage |-> 0,
     content |-> Null, retry |-> Null, ret |-> <<>>,
     sleeps |-> <<>>, reads |-> 0, elapsed |-> 0]

\* part_001 52-60: tag, wrapped command, startProcess is called
execCommandCall ==
    /\ exec.pc = "idle"
    /\ exec' = [exec EXCEPT !.pc = "starting", !.tag = clock]
    /\ log' = log \o <<Call(<<"exec", 0>>, "startProcess", <<"/tmp/exec-", ToString(clock), ".out">>, <<>>)>>
    /\ UNCHANGED <<bucketBound, extract, parse, wait, faults, hangs, procs, admin, fs, bucket, clock, sync, restore>>

\* part_001 60: the awaited startProcess settles
startProcessSettles ==
    /\ exec.pc = "starting"
    /\ exec.startMode \in {"ok", "reject"}
    /\ exec' = [exec EXCEPT !.pc = IF exec.startMode = "ok" THEN "sleep" ELSE "threw"]
    /\ UNCHANGED <<bucketBound, extract, parse, wait, faults, hangs, procs, admin, fs, bucket, clock, sync, restore, log>>

\* part_001 65-67: the head-start sleep
execCommandSleep ==
    /\ exec.pc = "sleep"
    /\ LET waitMs == Min(exec.timeoutMs - MARGIN_MS, HARD_WAIT_MS)
       IN  exec' = [exec EXCEPT !.pc = "read", !.sleeps = Append(@, waitMs),
                                !.elapsed = @ + waitMs]
    /\ UNCHANGED <<bucketBound, extract, parse, wait, faults, hangs, procs, admin, fs, bucket, clock, sync, restore, log>>

\* part_001 70-75: first read; return when the marker is there
execCommandRead ==
    /\ exec.pc = "read"
    /\ \E outcome \in ReadOutcomes(exec.file) :
          LET content == readFile(exec.file, outcome)
              after == [exec EXCEPT !.content = content, !.reads = @ + 1,
                                    !.elapsed = @ + ReadCost(outcome)]
          IN  IF ~content.null /\ DONE_MARKER \in Range(content.text)
              THEN exec' = [after EXCEPT !.pc = "returned", !.ret = Stripped(content)]
              ELSE exec' = [after EXCEPT !.pc = "retrySleep"]
    /\ UNCHANGED <<bucketBound, extract, parse, wait, faults, hangs, procs, admin, fs, bucket, clock, sync, restore, log>>

\* part_001 78-80: the extra sleep before the retry
execCommandRetrySleep ==
    /\ exec.pc = "retrySleep"
    /\ exec' = [exec EXCEPT !.pc = "retry", !.sleeps = Append(@, RETRY_SLEEP_MS),
                            !.elapsed = @ + RETRY_SLEEP_MS]
    /\ UNCHANGED <<bucketBound, extract, parse, wait, faults, hangs, procs, admin, fs, bucket, clock, sync, restore, log>>

\* the first read is preferred over the retry
RetryResult_FirstReadWins(content, retry) ==
    IF ~content.null THEN Stripped(content)
    ELSE IF ~retry.null THEN Stripped(retry)
    ELSE <<>>

\* the value returned after the retry read (part_001 83-88)
RetryResult(content, retry) ==
    IF ~retry.null THEN Stripped(retry)
    ELSE IF ~content.null THEN Stripped(content)
    ELSE <<>>

\* part_001 81-88: retry read and the final return
execCommandRetry ==
    /\ exec.pc = "retry"
    /\ \E outcome \in ReadOutcomes(exec.file) :
          LET retry == readFile(exec.file, outcome)
          IN  exec' = [exec EXCEPT !.pc = "returned", !.retry = retry, !.reads = @ + 1,
                                   !.elapsed = @ + ReadCost(outcome),
                                   !.ret = RetryResult(exec.content, retry)]
    /\ UNCHANGED <<bucketBound, extract, parse, wait, faults, hangs, procs, admin, fs, bucket, clock, sync, restore, log>>

\* part_001 58: the wrapped command in the sandbox: the redirection creates the
\* file, the command writes its output, echo appends the marker
CommandProgress ==
    /\ exec.pc # "idle"
    /\ exec.startMode # "reject"
    /\ exec.stage < 3
    /\ exec' = [exec EXCEPT
           !.stage = @ + 1,
           !.file = CASE exec.stage = 0 -> [exists |-> TRUE, text |-> <<>>]
                      [] exec.stage = 1 -> [exists |-> TRUE, text |-> exec.output]
                      [] exec.stage = 2 -> [exists |-> TRUE,
                                            text |-> exec.output \o <<DONE_MARKER, "\n">>]]
    /\ UNCHANGED <<bucketBound, extract, parse, wait, faults, hangs, procs, admin, fs, bucket, clock, sync, restore, log>>

(***************************************************************************)
(* waitForProcess                                                          *)
(***************************************************************************)
STATUSES == {"starting", "running", "completed", "failed"}

\* Math.ceil(timeoutMs / pollIntervalMs)
Ceil(a, b) == (a + b - 1) \div b

IdleWait ==
    [pc |-> "idle", status |-> "starting", timeoutMs |-> 0, pollIntervalMs |-> 1,
     maxAttempts |-> 0, attempts |-> 0, polledOn |-> <<>>]

waitForProcessCall ==
    /\ wait.pc = "idle"
    /\ wait' = [wait EXCEPT !.pc = "loop",
                            !.maxAttempts = Ceil(wait.timeoutMs, wait.pollIntervalMs),
                            !.attempts = 0]
    /\ UNCHANGED <<bucketBound, extract, parse, fs, bucket, clock, sync, restore, exec, log, faults,
                   hangs, procs, admin>>

\* the loop stops once the process is running
KeepsWaiting_WhileStarting(w) == w.status = "starting" /\ w.attempts < w.maxAttempts

\* the condition of the while loop
KeepsWaiting(w) == w.status \in {"running", "starting"} /\ w.attempts < w.maxAttempts

\* one turn of the loop: sleep pollIntervalMs, attempts++
waitForProcessPoll ==
    /\ wait.pc = "loop"
    /\ KeepsWaiting(wait)
    /\ wait' = [wait EXCEPT !.attempts = @ + 1, !.polledOn = Append(@, wait.status)]
    /\ UNCHANGED <<bucketBound, extract, parse, fs, bucket, clock, sync, restore, exec, log, faults,
                   hangs, procs, admin>>

waitForProcessReturn ==
    /\ wait.pc = "loop"
    /\ ~KeepsWaiting(wait)
    /\ wait' = [wait EXCEPT !.pc = "done"]
    /\ UNCHANGED <<bucketBound, extract, parse, fs, bucket, clock, sync, restore, exec, log, faults,
                   hangs, procs, admin>>

\* the sandbox runtime moves the process on while the caller sleeps
StatusChanges ==
    /\ wait.pc = "loop"
    /\ \E next \in STATUSES :
          /\ \/ wait.status = "starting" /\ next \in {"running", "completed", "failed"}
             \/ wait.status = "running" /\ next \in {"completed", "failed"}
          /\ wait' = [wait EXCEPT !.status = next]
    /\ UNCHANGED <<bucketBound, extract, parse, fs, bucket, clock, sync, restore, exec, log, faults,
                   hangs, procs, admin>>

(***************************************************************************)
(* Admin API                                                               *)
(***************************************************************************)
Requests == {1, 2}

\* sandbox primitives of the calls below
Primitives == {"startProcess", "listProcesses", "kill", "execStream", "readFileStream"}

\* command lines
GATEWAY_COMMAND == <<"/usr/local/bin/", "start-openclaw.sh">>

CliCommand(words) == <<"sh -c", "timeout 12">> \o words

DevicesList == <<"openclaw devices list">>

DevicesApprove(requestId) == <<"openclaw devices approve", requestId>>

Process(id, command, status) == [id |-> id, command |-> command, status |-> status]

Live(proc) == proc.status \in {"running", "starting"}

\* part_001 124-128
isGateway(proc) ==
    \/ Includes(proc.command, "start-openclaw.sh")
    \/ Includes(proc.command, "openclaw gateway")
    \/ Includes(proc.command, "start-moltbot.sh")
    \/ Includes(proc.command, "clawdbot gateway")

ProcIds(ps) == {ps[i].id : i \in 1..Len(ps)}

NextId(ps) == IF ps = <<>> THEN 1 ELSE 1 + CHOOSE m \in ProcIds(ps) : \A o \in ProcIds(ps) : o <= m

\* a killed process leaves the process table
RECURSIVE Without(_, _)
Without(ps, ids) ==
    IF ps = <<>> THEN <<>>
    ELSE (IF Head(ps).id \in ids THEN <<>> ELSE <<Head(ps)>>) \o Without(Tail(ps), ids)

\* findExisting: the process with a gateway command line, a live one first;
\* 0 when there is none
findExistingMoltbotProcess(ps) ==
    LET match == {i \in 1..Len(ps) : isGateway(ps[i])}
        live == {i \in match : Live(ps[i])}
        first(S) == CHOOSE i \in S : \A j \in S : i <= j
    IN  IF live # {} THEN ps[first(live)].id
        ELSE IF match # {} THEN ps[first(match)].id
        ELSE 0

ProcessOf(ps, id) == ps[CHOOSE i \in 1..Len(ps) : ps[i].id = id]

NoCleanup ==
    [ran |-> FALSE, listed |-> 0, live |-> 0, killed |-> {}, ret |-> 0, rejections |-> 0,
     attempted |-> {}, rejected |-> {}]

NoResponse == [status |-> 0, message |-> ""]

Response(status, message) == [status |-> status, message |-> message]

NoStdout == [shape |-> "none", pending |-> <<>>, approved |-> FALSE]

IdleRequest ==
    [kind |-> "none", pc |-> "idle", after |-> "", calls |-> <<>>, response |-> NoResponse,
     cmd |-> <<>>, stdout |-> NoStdout, pending |-> <<>>, idx |-> 0, results |-> <<>>,
     events |-> <<>>, existing |-> 0, cleanup |-> NoCleanup,
     killFailed |-> FALSE, previousProcessId |-> 0, outFiles |-> <<>>, proc |-> 0]

\* the handler's promise settles with a response unless one was already sent
Respond(req, status, message) ==
    IF req.response = NoResponse THEN Response(status, message) ELSE req.response

\* an exception reaches the catch of the handler: part_001 190-194, 227-230,
\* 293-296, 397-400; the boot of a restart logs it (385-387)
Raise(req, message) ==
    [req EXCEPT !.pc = "done", !.response = Respond(req, 500, message)]

(***************************************************************************)
(* ensureRunning                                                           *)
(***************************************************************************)
\* the check of ensureRunning: a live gateway makes the call a no-op
EnsureFind(r) ==
    /\ admin[r].pc = "ensure_find"
    /\ ~Hangs("listProcesses")
    /\ LET existing == findExistingMoltbotProcess(procs)
       IN  admin' = [admin EXCEPT ![r] =
              [@ EXCEPT !.pc = IF existing # 0 /\ Live(ProcessOf(procs, existing))
                               THEN admin[r].after ELSE "ensure_start"]]
    /\ UNCHANGED <<bucketBound, extract, parse, wait, faults, hangs, procs, fs, bucket, clock, sync, restore, exec, log>>

\* the act of ensureRunning: start the gateway launcher in the background
EnsureStart(r) ==
    /\ admin[r].pc = "ensure_start"
    /\ ~Hangs("startProcess")
    /\ procs' = Append(procs, Process(NextId(procs), GATEWAY_COMMAND, "starting"))
    /\ admin' = [admin EXCEPT ![r] = [@ EXCEPT !.pc = "ensure_wait"]]
    /\ UNCHANGED <<bucketBound, extract, parse, wait, faults, hangs, fs, bucket, clock, sync, restore, exec, log>>

\* the bounded wait of ensureRunning: the gateway left 'starting' or the
\* timeout elapsed
EnsureWait(r) ==
    /\ admin[r].pc = "ensure_wait"
    /\ admin' = [admin EXCEPT ![r] = [@ EXCEPT !.pc = admin[r].after]]
    /\ UNCHANGED <<bucketBound, extract, parse, wait, faults, hangs, procs, fs, bucket, clock, sync, restore, exec, log>>

(***************************************************************************)
(* cleanupOrphanedProcesses                                                *)
(***************************************************************************)
\* the first kill that throws ends the loop
KillLoop_StopsAtFirstKillError(processes, bad) ==
    LET at(id) == CHOOSE i \in 1..Len(processes) : processes[i].id = id
        targets == {processes[i].id : i \in {j \in 1..Len(processes) :
                        ~isGateway(processes[j]) /\ Live(processes[j])}}
        attempted == {id \in targets : \A b \in bad : at(id) <= at(b)}
    IN [attempted |-> attempted, killed |-> attempted \ bad]

\* the loop of part_001 123-140 over the listing; bad: the processes whose
\* kill throws
KillLoop(processes, bad) ==
    LET targets == {processes[i].id : i \in {j \in 1..Len(processes) :
                        ~isGateway(processes[j]) /\ Live(processes[j])}}
    IN [attempted |-> targets, killed |-> targets \ bad]

\* part_001 114-145, called at 160
cleanupOrphanedProcesses(r) ==
    /\ admin[r].pc = "cleanup"
    /\ ~Hangs("listProcesses")
    /\ \E f \in MayFail :
        LET processes == procs
            targets == {processes[i].id : i \in {j \in 1..Len(processes) :
                            ~isGateway(processes[j]) /\ Live(processes[j])}}
            live == Cardinality({i \in 1..Len(processes) : Live(processes[i])})
            next(req) == [req EXCEPT !.pc = "exec_start", !.cmd = DevicesList,
                                     !.after = "devices_parse",
                                     !.calls = Append(@, "cleanupOrphanedProcesses")]
        IN  IF f \/ Len(processes) <= 5
            THEN /\ faults' = faults - Count(f)
                 /\ procs' = procs
                 /\ admin' = [admin EXCEPT ![r] =
                        [next(@) EXCEPT !.cleanup =
                            [ran |-> TRUE, listed |-> IF f THEN 0 ELSE Len(processes),
                             live |-> live, killed |-> {}, ret |-> 0,
                             rejections |-> Count(f),
                             attempted |-> {}, rejected |-> {}]]]
            ELSE \E bad \in Rejections(targets) :
                 /\ targets # {} => ~Hangs("kill")
                 /\ faults' = faults - Cardinality(bad)
                 /\ procs' = Without(procs, KillLoop(processes, bad).killed)
                 /\ admin' = [admin EXCEPT ![r] =
                        [next(@) EXCEPT !.cleanup =
                            [ran |-> TRUE, listed |-> Len(processes), live |-> live,
                             killed |-> KillLoop(processes, bad).killed,
                             ret |-> Cardinality(KillLoop(processes, bad).killed),
                             rejections |-> Cardinality(bad),
                             attempted |-> KillLoop(processes, bad).attempted,
                             rejected |-> bad]]]
    /\ UNCHANGED <<bucketBound, extract, parse, wait, hangs, fs, bucket, clock, sync, restore, exec, log>>

(***************************************************************************)
(* Admin API handlers                                                      *)
(***************************************************************************)
Kinds == {"devices", "approve", "approveAll", "sync", "restart"}

DeviceIds == <<"d1", "d2", "d3", "d4">>

\* what the CLI may print: nothing that parses, a malformed JSON span, a
\* device list, or the outcome of an approval
Stdouts(cmd) ==
    IF cmd = DevicesList
    THEN {NoStdout, [NoStdout EXCEPT !.shape = "malformed"]}
         \cup {[NoStdout EXCEPT !.shape = "json", !.pending = SubSeq(DeviceIds, 1, n)] :
                  n \in 0..MaxDevices}
    ELSE {[NoStdout EXCEPT !.shape = "text", !.approved = b] : b \in BOOLEAN}

Event(what, cmd) == [what |-> what, cmd |-> cmd]

\* GET /devices cleans up before it ensures the gateway
HandlerBegin_DevicesCleanupFirst(r) ==
    /\ admin[r].pc = "idle"
    /\ admin[r].kind \in Kinds
    /\ admin' = [admin EXCEPT ![r] =
           IF admin[r].kind = "sync"
           THEN [@ EXCEPT !.pc = "sync_wait", !.calls = <<"syncToR2">>]
           ELSE IF admin[r].kind = "restart"
           THEN [@ EXCEPT !.pc = "restart_find", !.calls = <<"findExistingMoltbotProcess">>]
           ELSE IF admin[r].kind = "devices"
           THEN [@ EXCEPT !.pc = "cleanup"]
           ELSE [@ EXCEPT !.pc = "ensure_find", !.calls = <<"ensureMoltbotGateway">>,
                          !.after = CASE admin[r].kind = "approve" -> "approve_exec"
                                      [] OTHER -> "list_exec"]]
    /\ UNCHANGED <<bucketBound, extract, parse, wait, faults, hangs, procs, fs, bucket, clock, sync, restore, exec, log>>

\* part_001 148-157, 198-208, 234-239, 341-344, 366-371: a handler up to its
\* first call
HandlerBegin(r) ==
    /\ admin[r].pc = "idle"
    /\ admin[r].kind \in Kinds
    /\ admin' = [admin EXCEPT ![r] =
           IF admin[r].kind = "sync"
           THEN [@ EXCEPT !.pc = "sync_wait", !.calls = <<"syncToR2">>]
           ELSE IF admin[r].kind = "restart"
           THEN [@ EXCEPT !.pc = "restart_find", !.calls = <<"findExistingMoltbotProcess">>]
           ELSE [@ EXCEPT !.pc = "ensure_find", !.calls = <<"ensureMoltbotGateway">>,
                          !.after = CASE admin[r].kind = "devices" -> "cleanup"
                                      [] admin[r].kind = "approve" -> "approve_exec"
                                      [] OTHER -> "list_exec"]]
    /\ UNCHANGED <<bucketBound, extract, parse, wait, faults, hangs, procs, fs, bucket, clock, sync, restore, exec, log>>

\* part_001 213-216, 244-247: the command of approve and the listing of
\* approve-all
CommandBegin(r) ==
    /\ admin[r].pc \in {"approve_exec", "list_exec"}
    /\ admin' = [admin EXCEPT ![r] =
           IF admin[r].pc = "approve_exec"
           THEN [@ EXCEPT !.pc = "exec_start", !.cmd = DevicesApprove(DeviceIds[1]),
                          !.after = "approve_respond"]
           ELSE [@ EXCEPT !.pc = "exec_start", !.cmd = DevicesList, !.after = "list_parse"]]
    /\ UNCHANGED <<bucketBound, extract, parse, wait, faults, hangs, procs, fs, bucket, clock, sync, restore, exec, log>>

\* part_001 52-53: the output file of an invocation, named after Date.now()
OutFile(tag) == <<"/tmp/exec-", tag, ".out">>

\* part_001 47-61: execCommand up to the return of startProcess; a rejection
\* is caught per device inside the approve-all loop (278-284) and by the
\* handler elsewhere
ExecStart(r) ==
    /\ admin[r].pc = "exec_start"
    /\ ~Hangs("startProcess")
    /\ \E f \in MayFail :
        LET req == [admin[r] EXCEPT !.calls = Append(@, "execCommand"),
                                    !.outFiles = Append(@, OutFile(clock)),
                                    !.events = Append(@, Event("start", admin[r].cmd))]
        IN  /\ faults' = faults - Count(f)
            /\ IF ~f
               THEN /\ procs' = Append(procs, Process(NextId(procs),
                                                      CliCommand(admin[r].cmd), "running"))
                    /\ admin' = [admin EXCEPT ![r] =
                           [req EXCEPT !.pc = "exec_wait", !.proc = NextId(procs)]]
               ELSE /\ procs' = procs
                    /\ admin' = [admin EXCEPT ![r] =
                           LET thrown == [req EXCEPT !.events =
                                             Append(@, Event("return", admin[r].cmd))]
                           IN  IF admin[r].after = "approve_result"
                               THEN [thrown EXCEPT
                                        !.results = Append(@, [requestId |-> admin[r].pending[admin[r].idx],
                                                               success |-> FALSE]),
                                        !.idx = @ + 1, !.pc = "approve_loop"]
                               ELSE Raise(thrown, "startProcess rejected")]
    /\ UNCHANGED <<bucketBound, extract, parse, wait, hangs, fs, bucket, clock, sync, restore, exec, log>>

\* part_001 63-89: execCommand from the wait to its return value; readFile
\* gives up on a read that does not settle (33)
ExecReturn(r) ==
    /\ admin[r].pc = "exec_wait"
    /\ \E out \in Stdouts(admin[r].cmd) :
          admin' = [admin EXCEPT ![r] =
              [@ EXCEPT !.stdout = out, !.pc = admin[r].after,
                        !.events = Append(@, Event("return", admin[r].cmd))]]
    /\ clock' = clock + 1
    /\ UNCHANGED <<bucketBound, extract, parse, wait, faults, hangs, procs, fs, bucket, sync, restore, exec, log>>

\* part_001 170-189: the device list is returned
DevicesRespond(r) ==
    /\ admin[r].pc = "devices_parse"
    /\ admin' = [admin EXCEPT ![r] =
           [@ EXCEPT !.pc = "done", !.response = Respond(admin[r], 200, "devices")]]
    /\ UNCHANGED <<bucketBound, extract, parse, wait, faults, hangs, procs, fs, bucket, clock, sync, restore, exec, log>>

\* part_001 190-193: the body and status sent when the timer wins
DevicesTimedOut ==
    [status |-> 500, message |-> "Devices endpoint timed out", pending |-> <<>>,
     paired |-> <<>>]

\* the timer ends the handler with the request
DevicesTimeout_CancelsHandler(r) ==
    /\ admin[r].kind = "devices"
    /\ admin[r].pc \notin {"idle", "done"}
    /\ admin[r].response = NoResponse
    /\ admin' = [admin EXCEPT ![r] = [@ EXCEPT !.response = DevicesTimedOut, !.pc = "done"]]
    /\ UNCHANGED <<bucketBound, extract, parse, wait, faults, hangs, procs, fs, bucket, clock, sync, restore, exec, log>>

\* part_001 183-194: the outer timer of GET /devices wins the race; the
\* handler is not cancelled
DevicesTimeout(r) ==
    /\ admin[r].kind = "devices"
    /\ admin[r].pc \notin {"idle", "done"}
    /\ admin[r].response = NoResponse
    /\ admin' = [admin EXCEPT ![r] = [@ EXCEPT !.response = DevicesTimedOut]]
    /\ UNCHANGED <<bucketBound, extract, parse, wait, faults, hangs, procs, fs, bucket, clock, sync, restore, exec, log>>

\* part_001 218-226
ApproveRespond(r) ==
    /\ admin[r].pc = "approve_respond"
    /\ admin' = [admin EXCEPT ![r] =
           [@ EXCEPT !.pc = "done",
                     !.response = Respond(admin[r], 200,
                                     IF admin[r].stdout.approved THEN "Device approved"
                                     ELSE "Approval may have failed")]]
    /\ UNCHANGED <<bucketBound, extract, parse, wait, faults, hangs, procs, fs, bucket, clock, sync, restore, exec, log>>

\* part_001 249-266: the pending devices are parsed out of the listing
ApproveAllParse(r) ==
    /\ admin[r].pc = "list_parse"
    /\ admin' = [admin EXCEPT ![r] =
           IF admin[r].stdout.shape = "malformed"
           THEN [@ EXCEPT !.pc = "done",
                          !.response = Respond(admin[r], 500, "Failed to parse device list")]
           ELSE IF admin[r].stdout.pending = <<>>
           THEN [@ EXCEPT !.pc = "done",
                          !.response = Respond(admin[r], 200, "No pending devices to approve")]
           ELSE [@ EXCEPT !.pc = "approve_loop", !.pending = admin[r].stdout.pending,
                          !.idx = 1]]
    /\ UNCHANGED <<bucketBound, extract, parse, wait, faults, hangs, procs, fs, bucket, clock, sync, restore, exec, log>>

\* part_001 286-292: the body of the response after the loop
ApproveAllBody(results) ==
    LET succeeded(x) == x.success
        notSucceeded(x) == ~x.success
        ok == SelectSeq(results, succeeded)
    IN  [status |-> 200, message |-> "Approved",
         approved |-> [i \in 1..Len(ok) |-> ok[i].requestId],
         failed |-> SelectSeq(results, notSucceeded)]

\* every approval is started without awaiting the one before
approveAllNext_Parallel(r) ==
    /\ admin[r].pc = "approve_loop"
    /\ IF admin[r].idx <= Len(admin[r].pending)
       THEN /\ ~Hangs("startProcess")
            /\ procs' = Append(procs, Process(NextId(procs),
                           CliCommand(DevicesApprove(admin[r].pending[admin[r].idx])), "running"))
            /\ admin' = [admin EXCEPT ![r] =
                   [@ EXCEPT !.idx = @ + 1,
                             !.calls = Append(@, "execCommand"),
                             !.events = Append(@, Event("start",
                                 DevicesApprove(admin[r].pending[admin[r].idx])))]]
       ELSE /\ procs' = procs
            /\ admin' = [admin EXCEPT ![r] =
                   [@ EXCEPT !.pc = "done", !.response = Respond(admin[r], 200, "Approved")]]
    /\ UNCHANGED <<bucketBound, extract, parse, wait, faults, hangs, fs, bucket, clock, sync, restore, exec, log>>

\* part_001 268-274, 287-292: the head of the approval loop, and the response
\* after the last device
approveAllNext(r) ==
    /\ admin[r].pc = "approve_loop"
    /\ admin' = [admin EXCEPT ![r] =
           IF admin[r].idx <= Len(admin[r].pending)
           THEN [@ EXCEPT !.pc = "exec_start", !.after = "approve_result",
                          !.cmd = DevicesApprove(admin[r].pending[admin[r].idx])]
           ELSE [@ EXCEPT !.pc = "done", !.response = ApproveAllBody(admin[r].results)]]
    /\ procs' = procs
    /\ UNCHANGED <<bucketBound, extract, parse, wait, faults, hangs, fs, bucket, clock, sync, restore, exec, log>>

\* an approval that did not succeed ends the loop
ApproveResult_StopsAtFailure(r) ==
    /\ admin[r].pc = "approve_result"
    /\ admin' = [admin EXCEPT ![r] =
           [@ EXCEPT !.results = Append(@, [requestId |-> admin[r].pending[admin[r].idx],
                                            success |-> admin[r].stdout.approved]),
                     !.idx = IF admin[r].stdout.approved THEN @ + 1
                             ELSE Len(admin[r].pending) + 1,
                     !.pc = "approve_loop"]]
    /\ UNCHANGED <<bucketBound, extract, parse, wait, faults, hangs, procs, fs, bucket, clock, sync, restore, exec, log>>

\* part_001 275-277: the outcome of one approval
ApproveResult(r) ==
    /\ admin[r].pc = "approve_result"
    /\ admin' = [admin EXCEPT ![r] =
           [@ EXCEPT !.results = Append(@, [requestId |-> admin[r].pending[admin[r].idx],
                                            success |-> admin[r].stdout.approved]),
                     !.idx = @ + 1, !.pc = "approve_loop"]]
    /\ UNCHANGED <<bucketBound, extract, parse, wait, faults, hangs, procs, fs, bucket, clock, sync, restore, exec, log>>

\* part_001 344-362: the result of syncToR2 becomes the response; an
\* exception of syncToR2 is left to the framework
SyncRespond(r) ==
    /\ admin[r].pc = "sync_wait"
    /\ sync[r].pc \in {"done", "threw"}
    /\ admin' = [admin EXCEPT ![r] =
           [@ EXCEPT !.pc = "done",
                     !.response =
                        IF sync[r].pc = "threw" THEN Response(500, "Internal Server Error")
                        ELSE IF sync[r].result.success
                        THEN Response(200, "Sync completed successfully")
                        ELSE IF sync[r].result.error = "R2 bucket binding not configured"
                        THEN Response(400, sync[r].result.error)
                        ELSE Response(500, sync[r].result.error)]]
    /\ UNCHANGED <<bucketBound, extract, parse, wait, faults, hangs, procs, fs, bucket, clock, sync, restore, exec, log>>

\* part_001 371-373
RestartFind(r) ==
    /\ admin[r].pc = "restart_find"
    /\ ~Hangs("listProcesses")
    /\ LET existing == findExistingMoltbotProcess(procs)
       IN  admin' = [admin EXCEPT ![r] =
              [@ EXCEPT !.existing = existing,
                        !.pc = IF existing # 0 THEN "restart_kill" ELSE "restart_boot"]]
    /\ UNCHANGED <<bucketBound, extract, parse, wait, faults, hangs, procs, fs, bucket, clock, sync, restore, exec, log>>

\* part_001 373-382: kill errors are logged and ignored
RestartKill(r) ==
    /\ admin[r].pc = "restart_kill"
    /\ ~Hangs("kill")
    /\ \E f \in MayFail :
          /\ faults' = faults - Count(f)
          /\ procs' = IF f THEN procs ELSE Without(procs, {admin[r].existing})
          /\ admin' = [admin EXCEPT ![r] =
                 [@ EXCEPT !.pc = "restart_wait", !.calls = Append(@, "kill"),
                           !.killFailed = f]]
    /\ UNCHANGED <<bucketBound, extract, parse, wait, hangs, fs, bucket, clock, sync, restore, exec, log>>

\* part_001 381-382: two seconds for the process to die
RestartTeardownWait(r) ==
    /\ admin[r].pc = "restart_wait"
    /\ admin' = [admin EXCEPT ![r] =
           [@ EXCEPT !.pc = "restart_boot", !.calls = Append(@, "setTimeout")]]
    /\ UNCHANGED <<bucketBound, extract, parse, wait, faults, hangs, procs, fs, bucket, clock, sync, restore, exec, log>>

\* the handler awaits the boot and answers when it has settled
RestartBoot_AwaitsBoot(r) ==
    /\ admin[r].pc = "restart_boot"
    /\ admin' = [admin EXCEPT ![r] =
           [@ EXCEPT !.pc = "ensure_find", !.after = "done",
                     !.calls = Append(@, "ensureMoltbotGateway")]]
    /\ UNCHANGED <<bucketBound, extract, parse, wait, faults, hangs, procs, fs, bucket, clock, sync, restore, exec, log>>

\* part_001 384-396: the new gateway boots in the background and the
\* response goes out at once
RestartBoot(r) ==
    /\ admin[r].pc = "restart_boot"
    /\ admin' = [admin EXCEPT ![r] =
           [@ EXCEPT !.pc = "ensure_find", !.after = "done",
                     !.calls = Append(@, "ensureMoltbotGateway"),
                     !.previousProcessId = admin[r].existing,
                     !.response = Respond(admin[r], 200,
                                     IF admin[r].existing # 0
                                     THEN "Gateway process killed, new instance starting..."
                                     ELSE "No existing process found, starting new instance...")]]
    /\ UNCHANGED <<bucketBound, extract, parse, wait, faults, hangs, procs, fs, bucket, clock, sync, restore, exec, log>>

\* a millisecond goes by
TimePasses ==
    /\ clock < MaxClock
    /\ clock' = clock + 1
    /\ UNCHANGED <<bucketBound, extract, parse, wait, faults, hangs, procs, fs, bucket, sync, restore, exec, log, admin>>

\* the sandbox runs its processes: a starting one comes up
ProcessComesUp ==
    /\ \E i \in 1..Len(procs) :
          /\ procs[i].status = "starting"
          /\ procs' = [procs EXCEPT ![i].status = "running"]
    /\ UNCHANGED <<bucketBound, extract, parse, wait, faults, hangs, fs, bucket, clock, sync, restore, exec, log, admin>>

\* a command exits: every command runs under the same 'timeout 12' (58), so
\* the one started first exits first
CommandExits ==
    /\ \E i \in 1..Len(procs) :
          /\ procs[i].status = "running"
          /\ ~isGateway(procs[i])
          /\ \A j \in 1..(i - 1) : isGateway(procs[j]) \/ ~Live(procs[j])
          /\ procs' = [procs EXCEPT ![i].status = "completed"]
    /\ UNCHANGED <<bucketBound, extract, parse, wait, faults, hangs, fs, bucket, clock, sync, restore, exec, log, admin>>

(***************************************************************************)
(* Initial states                                                          *)
(***************************************************************************)
\* files a sandbox may hold
FileCatalogue ==
    {<<"/root/.openclaw", "/", "a", ".json">>,
     <<"/root/.openclaw", "/", "s", ".jsonl">>,
     <<"/root/.openclaw", "/", "b", ".log">>,
     <<"/root/.openclaw", "/", "c", "{">>,
     <<"/root/.openclaw", "/", "complete", ".json">>,
     <<"/root/.clawdbot", "/", "a", ".json">>,
     <<"/root/clawd", "/", "I", ".md">>,
     <<"/root/clawd", "/", "skills", "/", "k", ".md">>,
     <<"/root/clawd", "/", "d", "/", "skills", "/", "k", ".md">>,
     LAST_SYNC_FILE}

\* content a file may have; only some files are tried empty
Contents(path) ==
    IF path \in {<<"/root/.openclaw", "/", "a", ".json">>, <<"/root/clawd", "/", "I", ".md">>}
    THEN {<<>>, <<"x", "y">>}
    ELSE {<<"x", "y">>}

\* objects left in the bucket by earlier passes
StaleKeys ==
    {<<"openclaw", "/", "a", ".json">>,
     <<"openclaw", "/", "c", "\"">>,
     <<"workspace", "/", "b", "{">>,
     <<"openclaw", "/", "d", "\\n">>,
     <<"openclaw", "/", "c", "}">>,
     <<"skills", "/", "old", ".md">>,
     LAST_SYNC_KEY}

ObjectCatalogue ==
    {<<"openclaw", "/", "a", ".json">>,
     <<"openclaw", "/", "s", ".jsonl">>,
     <<"openclaw", "/", "old", ".bak">>,
     <<"openclaw", "/", "c", "\"">>,
     <<"openclaw", "/", "c", "}">>,
     <<"openclaw", "/", "d", "\\n">>,
     <<"openclaw", "/", "d", "/">>,
     <<"openclaw", "/", "d", "/", "a", ".json">>,
     <<"workspace", "/", "I", ".md">>,
     <<"workspace", "/", "b", "{">>,
     <<"workspace", "/", "skills", "/", "k", ".md">>,
     <<"skills", "/", "k", ".md">>}

StoredValue(k) == IF k = LAST_SYNC_KEY THEN ToISOString(0) ELSE <<"old", k[3]>>

InitCommon ==
    /\ bucketBound \in BOOLEAN
    /\ clock = 0
    /\ sync = [p \in Passes |-> IdlePass]
    /\ restore = IdleRestore
    /\ exec = IdleExec
    /\ log = <<>>
    /\ parse = IdleParse
    /\ extract = IdleExtract
    /\ wait = IdleWait
    /\ faults = 0
    /\ hangs = {}
    /\ procs = <<>>
    /\ admin = [r \in Requests |-> IdleRequest]

InitSandbox(n) ==
    \E S \in SUBSET FileCatalogue :
        /\ Cardinality(S) <= n
        /\ fs \in [S -> UNION {Contents(f) : f \in S}]
        /\ \A f \in S : fs[f] \in Contents(f)

InitBucket(n) ==
    \E K \in SUBSET StaleKeys :
        /\ Cardinality(K) <= n
        /\ bucket = [k \in K |-> StoredValue(k)]

\* a sandbox with some files and a bucket with some earlier objects
Init == InitCommon /\ InitSandbox(MaxFiles) /\ InitBucket(MaxStale)

InitTwice == InitCommon /\ InitSandbox(MaxResync) /\ InitBucket(MaxStale)

InitRoundTrip == InitCommon /\ InitSandbox(MaxFiles) /\ InitBucket(MaxOld)

\* a fresh sandbox and a bucket with any objects
InitRestore ==
    /\ InitCommon
    /\ fs = EmptyMap
    /\ \E K \in SUBSET ObjectCatalogue, marker \in SUBSET {LAST_SYNC_KEY} :
          /\ Cardinality(K) <= MaxObjects
          /\ bucket = [k \in K \cup marker |-> StoredValue(k)]

(***************************************************************************)
(* Specifications                                                          *)
(***************************************************************************)
\* requests are served one at a time
Quiescent ==
    /\ \A p \in Passes : sync[p].pc \in {"idle", "done"}
    /\ restore.pc \in {"idle", "done"}

SyncRequest(p) ==
    /\ Quiescent
    /\ restore.pc = "idle"
    /\ \A q \in Passes : q < p => sync[q].pc = "done"
    /\ SyncStart(p)

RestoreRequest == Quiescent /\ restoreFromR2Start

RestoreNext ==
    \/ restorePrefixBegin
    \/ restorePrefixList
    \/ restorePrefixObject
    \/ restorePrefixPageEnd
    \/ restoreFromR2Finish

SyncNext(p) ==
    \/ cleanCorruptedR2Keys(p)
    \/ syncDirectoryList(p)
    \/ syncDirectoryFile(p)
    \/ syncDirectoryReturn(p)
    \/ syncToR2Finish(p)

\* one sync pass
Next == SyncRequest(1) \/ SyncNext(1)

Spec == Init /\ [][Next]_vars

\* two sync passes, one after the other
NextTwice == \E p \in Passes : SyncRequest(p) \/ SyncNext(p)

SpecTwice == InitTwice /\ [][NextTwice]_vars

\* two sync passes at once over one sandbox
SharedFiles == {<<"/root/.openclaw", "/", "a", ".json">>}

SharedBuckets == {{}, {<<"openclaw", "/", "a", ".json">>, <<"openclaw", "/", "c", "\"">>}}

InitConcurrent ==
    /\ InitCommon
    /\ bucketBound = TRUE
    /\ \E S \in SUBSET SharedFiles : fs = [f \in S |-> <<"x", "y">>]
    /\ \E K \in SharedBuckets : bucket = [k \in K |-> StoredValue(k)]

NextConcurrent == \E p \in Passes : SyncStart(p) \/ SyncNext(p)

SpecConcurrent == InitConcurrent /\ [][NextConcurrent]_vars

\* overlapping passes whose marker puts are requests in flight
SyncNextInFlight(p) ==
    \/ cleanCorruptedR2Keys(p)
    \/ syncDirectoryList(p)
    \/ syncDirectoryFile(p)
    \/ syncDirectoryReturn(p)
    \/ syncToR2Stamp(p)
    \/ syncToR2PutMarker(p)

NextInFlight == \E p \in Passes : SyncStart(p) \/ SyncNextInFlight(p)

SpecInFlight == InitConcurrent /\ [][NextInFlight]_vars

\* one sync pass during which calls on the sandbox and on object storage reject
FaultyFiles ==
    {<<"/root/.openclaw", "/", "a", ".json">>,
     <<"/root/.openclaw", "/", "s", ".jsonl">>,
     <<"/root/.clawdbot", "/", "a", ".json">>,
     <<"/root/clawd", "/", "I", ".md">>,
     <<"/root/clawd", "/", "skills", "/", "k", ".md">>}

FaultyBuckets ==
    {{},
     {<<"openclaw", "/", "c", "\"">>},
     {<<"openclaw", "/", "a", ".json">>, <<"openclaw", "/", "c", "\"">>,
      <<"openclaw", "/", "d", "\\n">>}}

InitFaults ==
    /\ bucketBound \in BOOLEAN
    /\ clock = 0
    /\ sync = [p \in Passes |-> IdlePass]
    /\ restore = IdleRestore
    /\ exec = IdleExec
    /\ log = <<>>
    /\ parse = IdleParse
    /\ extract = IdleExtract
    /\ wait = IdleWait
    /\ faults \in 0..MaxFaults
    /\ hangs = {}
    /\ procs = <<>>
    /\ admin = [r \in Requests |-> IdleRequest]
    /\ \E S \in SUBSET FaultyFiles :
          /\ Cardinality(S) <= MaxFiles
          /\ fs \in [S -> UNION {Contents(f) : f \in S}]
          /\ \A f \in S : fs[f] \in Contents(f)
    /\ \E K \in FaultyBuckets : bucket = [k \in K |-> StoredValue(k)]

SpecFaults == InitFaults /\ [][Next]_vars

\* restoreFromR2 runs when a fresh sandbox boots
RestoreAtBoot == fs = EmptyMap /\ RestoreRequest

\* one sync pass, a restart of the sandbox, a restore
NextRoundTrip ==
    \/ SyncRequest(1)
    \/ SyncNext(1)
    \/ ColdStart
    \/ RestoreAtBoot
    \/ RestoreNext

SpecRoundTrip == InitRoundTrip /\ [][NextRoundTrip]_vars

NextRestore == restoreFromR2Start \/ RestoreNext

\* a restore during which calls on the collaborators may reject
NextRestoreFaults == restoreFromR2Start \/ restoreFromR2StartThrows \/ RestoreNext

SpecRestore == InitRestore /\ [][NextRestore]_vars

\* a restore during which calls on the collaborators may reject
FaultyObjects ==
    {<<"openclaw", "/", "a", ".json">>,
     <<"openclaw", "/", "d", "/", "a", ".json">>,
     <<"openclaw", "/", "s", ".jsonl">>,
     <<"workspace", "/", "I", ".md">>,
     <<"skills", "/", "k", ".md">>}

InitRestoreFaults ==
    /\ bucketBound = TRUE
    /\ clock = 0
    /\ sync = [p \in Passes |-> IdlePass]
    /\ restore = IdleRestore
    /\ exec = IdleExec
    /\ log = <<>>
    /\ parse = IdleParse
    /\ extract = IdleExtract
    /\ wait = IdleWait
    /\ faults \in 0..MaxFaults
    /\ hangs = {}
    /\ procs = <<>>
    /\ admin = [r \in Requests |-> IdleRequest]
    /\ fs = EmptyMap
    /\ \E K \in SUBSET FaultyObjects, marker \in SUBSET {LAST_SYNC_KEY} :
          bucket = [k \in K \cup marker |-> StoredValue(k)]

SpecRestoreFaults == InitRestoreFaults /\ [][NextRestoreFaults]_vars

\* a process table: at most one gateway, live commands, exited commands
InitProcs(n) ==
    \E g \in 0..1, live \in 0..n, dead \in 0..n :
        /\ g + live + dead <= n
        /\ procs = [i \in 1..(g + live + dead) |->
                      IF i <= g THEN Process(i, GATEWAY_COMMAND, "running")
                      ELSE IF i <= g + live
                      THEN Process(i, CliCommand(DevicesList),
                                   IF i = g + 1 THEN "starting" ELSE "running")
                      ELSE Process(i, CliCommand(DevicesList), "completed")]

\* one admin request of any kind; some sandbox primitive may never settle
InitAdmin ==
    /\ clock = 0
    /\ sync = [p \in Passes |-> IdlePass]
    /\ restore = IdleRestore
    /\ exec = IdleExec
    /\ log = <<>>
    /\ parse = IdleParse
    /\ extract = IdleExtract
    /\ wait = IdleWait
    /\ \/ faults \in 0..MaxFaults /\ hangs = {}
       \/ faults = 0 /\ hangs \in {{x} : x \in Primitives}
    /\ fs = [f \in {<<"/root/.openclaw", "/", "a", ".json">>} |-> <<"x", "y">>]
    /\ bucket = [k \in {<<"openclaw", "/", "c", "\"">>} |-> StoredValue(k)]
    /\ \E kind \in Kinds :
          /\ admin = [r \in Requests |->
                        IF r = 1 THEN [IdleRequest EXCEPT !.kind = kind] ELSE IdleRequest]
          /\ IF kind = "sync"
             THEN bucketBound \in BOOLEAN /\ procs = <<>>
             ELSE IF kind = "devices"
             THEN bucketBound = TRUE /\ InitProcs(MaxProcs)
             ELSE bucketBound = TRUE /\ InitProcs(1)

AdminNext(r) ==
    \/ HandlerBegin(r)
    \/ CommandBegin(r)
    \/ EnsureFind(r)
    \/ EnsureStart(r)
    \/ EnsureWait(r)
    \/ cleanupOrphanedProcesses(r)
    \/ ExecStart(r)
    \/ ExecReturn(r)
    \/ DevicesRespond(r)
    \/ DevicesTimeout(r)
    \/ ApproveRespond(r)
    \/ ApproveAllParse(r)
    \/ approveAllNext(r)
    \/ ApproveResult(r)
    \/ SyncRespond(r)
    \/ RestartFind(r)
    \/ RestartKill(r)
    \/ RestartTeardownWait(r)
    \/ RestartBoot(r)

\* the pass that POST /storage/sync awaits
AdminSync(r) == admin[r].pc = "sync_wait" /\ (SyncStart(r) \/ SyncNext(r))

NextAdmin == AdminNext(1) \/ AdminSync(1) \/ ProcessComesUp \/ CommandExits

SpecAdmin == InitAdmin /\ [][NextAdmin]_vars

\* timers fire and settled promises resume the handler; the sandbox owes
\* nothing
FairSpecAdmin == SpecAdmin /\ WF_vars(AdminNext(1) \/ AdminSync(1))

\* two GET /devices requests at once on a sandbox without a gateway
InitEnsure ==
    /\ bucketBound = TRUE
    /\ clock = 0
    /\ sync = [p \in Passes |-> IdlePass]
    /\ restore = IdleRestore
    /\ exec = IdleExec
    /\ log = <<>>
    /\ parse = IdleParse
    /\ extract = IdleExtract
    /\ wait = IdleWait
    /\ faults = 0
    /\ hangs = {}
    /\ fs = EmptyMap
    /\ bucket = EmptyMap
    /\ admin = [r \in Requests |-> [IdleRequest EXCEPT !.kind = "devices"]]
    /\ \E live \in 0..MaxProcs :
          procs = [i \in 1..live |-> Process(i, CliCommand(DevicesList), "running")]

DevicesNext(r) ==
    \/ HandlerBegin(r)
    \/ EnsureFind(r)
    \/ EnsureStart(r)
    \/ EnsureWait(r)
    \/ cleanupOrphanedProcesses(r)
    \/ ExecStart(r)
    \/ ExecReturn(r)
    \/ DevicesRespond(r)
    \/ DevicesTimeout(r)

NextEnsure == (\E r \in Requests : DevicesNext(r)) \/ ProcessComesUp

SpecEnsure == InitEnsure /\ [][NextEnsure]_vars

\* two GET /devices requests at once; the gateway may be up already
InitOverlap ==
    /\ bucketBound = TRUE
    /\ clock = 0
    /\ sync = [p \in Passes |-> IdlePass]
    /\ restore = IdleRestore
    /\ exec = IdleExec
    /\ log = <<>>
    /\ parse = IdleParse
    /\ extract = IdleExtract
    /\ wait = IdleWait
    /\ faults = 0
    /\ hangs = {}
    /\ fs = EmptyMap
    /\ bucket = EmptyMap
    /\ admin = [r \in Requests |-> [IdleRequest EXCEPT !.kind = "devices"]]
    /\ procs \in {<<>>, <<Process(1, GATEWAY_COMMAND, "running")>>}

NextOverlap == (\E r \in Requests : DevicesNext(r)) \/ TimePasses

SpecOverlap == InitOverlap /\ [][NextOverlap]_vars


\* what a command may print, and the timeouts callers may ask for
Outputs == {<<>>, <<"out">>, <<" ", "out", "\n">>}
Timeouts == {CLI_TIMEOUT_MS, 5000}

InitExec ==
    /\ bucketBound = TRUE
    /\ fs = EmptyMap
    /\ bucket = EmptyMap
    /\ clock \in 0..MaxClock
    /\ sync = [p \in Passes |-> IdlePass]
    /\ restore = IdleRestore
    /\ log = <<>>
    /\ parse = IdleParse
    /\ extract = IdleExtract
    /\ wait = IdleWait
    /\ faults = 0
    /\ hangs = {}
    /\ procs = <<>>
    /\ admin = [r \in Requests |-> IdleRequest]
    /\ \E mode \in {"ok", "reject", "hang"}, t \in Timeouts, out \in Outputs :
          exec = [IdleExec EXCEPT !.startMode = mode, !.timeoutMs = t, !.output = out]

ExecSteps ==
    \/ execCommandCall
    \/ startProcessSettles
    \/ execCommandSleep
    \/ execCommandRead
    \/ execCommandRetrySleep
    \/ execCommandRetry

NextExec == ExecSteps \/ CommandProgress

SpecExec == InitExec /\ [][NextExec]_vars

\* timers fire and settled promises resume the caller; the sandbox owes nothing
FairSpecExec == SpecExec /\ WF_vars(ExecSteps)

\* a raw stream goes through the parser
RawAlphabet ==
    {DATA_PREFIX, SEPARATOR, NEWLINE, SPACE, Chars("oops"),
     Json([type |-> "chunk", data |-> <<"x">>]),
     Json([type |-> "chunk", data |-> <<"y">>]),
     Json([type |-> "stdout", data |-> <<"z">>])}

\* two newlines in a row are one lexeme
Lexed(raw) == \A i \in 1..(Len(raw) - 1) : ~(raw[i] = NEWLINE /\ raw[i + 1] = NEWLINE)

InitIdle ==
    /\ bucketBound = TRUE
    /\ fs = EmptyMap
    /\ bucket = EmptyMap
    /\ clock = 0
    /\ sync = [p \in Passes |-> IdlePass]
    /\ restore = IdleRestore
    /\ exec = IdleExec
    /\ log = <<>>
    /\ faults = 0
    /\ hangs = {}
    /\ procs = <<>>
    /\ admin = [r \in Requests |-> IdleRequest]

InitParse ==
    /\ InitIdle
    /\ wait = IdleWait
    /\ \E n \in 0..MaxRaw : \E raw \in [1..n -> RawAlphabet] :
          /\ Lexed(raw)
          /\ parse = [IdleParse EXCEPT !.raw = raw]
    /\ extract = IdleExtract

NextParse == ParseStream

\* the outputs the device listing may print
OutputAlphabet == {OPEN, CLOSE, MEMBER, OTHER_TEXT}

InitExtract ==
    /\ InitIdle
    /\ parse = IdleParse
    /\ wait = IdleWait
    /\ \E n \in 0..MaxStdout : \E stdout \in [1..n -> OutputAlphabet] :
          extract = [IdleExtract EXCEPT !.stdout = stdout]

NextExtract == ExtractPayload

SpecExtract == InitExtract /\ [][NextExtract]_vars

SpecParse == InitParse /\ [][NextParse]_vars

\* a process is waited for while the sandbox runtime moves it on
InitWait ==
    /\ InitIdle
    /\ parse = IdleParse
    /\ extract = IdleExtract
    /\ \E st \in STATUSES, t \in 0..MaxTimeoutMs, i \in 1..MaxIntervalMs :
          wait = [IdleWait EXCEPT !.status = st, !.timeoutMs = t, !.pollIntervalMs = i]

NextWait ==
    \/ waitForProcessCall
    \/ waitForProcessPoll
    \/ waitForProcessReturn
    \/ StatusChanges

SpecWait == InitWait /\ [][NextWait]_vars

(***************************************************************************)
(* Vocabulary of the properties                                            *)
(***************************************************************************)
\* a name that only a serialization bug produces: quote, brace, literal \n
HasCorruptionSign(name) ==
    Includes(name, "\"") \/ Includes(name, "{") \/ Includes(name, "}") \/ Includes(name, "\\n")

NoCorruptPath(files) == \A f \in DOMAIN files : ~HasCorruptionSign(f)

\* lock, log, temp and version-control paths
ExcludedPath(f) ==
    EndsWith(f, ".lock") \/ EndsWith(f, ".log") \/ EndsWith(f, ".tmp")
    \/ IncludesSeq(f, <<"/", ".git", "/">>)

Under(f, dir) == StartsWith(f, dir \o <<"/">>)

\* the config directory of a sandbox: the primary path, else the legacy one
ConfigDirOf(files) ==
    IF \E f \in DOMAIN files : Under(f, OPENCLAW_DIR) THEN OPENCLAW_DIR ELSE CLAWDBOT_DIR

\* the syncable files of a sandbox: those of its config and workspace trees
SyncableFiles(files) ==
    {f \in DOMAIN files :
        /\ ~ExcludedPath(f)
        /\ Under(f, ConfigDirOf(files)) \/ Under(f, CLAWD_DIR)}

\* the object key of a file: <prefix>/<relative-path>
KeyOf(f) ==
    IF Under(f, SKILLS_DIR) THEN <<"skills", "/">> \o Slice(f, 4)
    ELSE IF Under(f, CLAWD_DIR) THEN <<"workspace", "/">> \o Slice(f, 2)
    ELSE <<"openclaw", "/">> \o Slice(f, 2)

\* the files a listing of dir returns: found and with a clean path
Listed(files, dir, excludeDirs) ==
    {f \in DOMAIN files : FindMatches(f, dir, excludeDirs) /\ isCleanPath(f)}

\* the config directory a pass settles on, <<>> when neither path lists a file
ListedConfigDir(files) ==
    IF Listed(files, OPENCLAW_DIR, {}) # {} THEN OPENCLAW_DIR
    ELSE IF Listed(files, CLAWDBOT_DIR, {}) # {} THEN CLAWDBOT_DIR
    ELSE <<>>

\* the listed files in the config tree and in the workspace outside skills
ListedCore(files) ==
    Listed(files, ListedConfigDir(files), {}) \cup Listed(files, CLAWD_DIR, {"skills"})

\* the listed files of the three trees that have content
Uploadable(files) ==
    {f \in ListedCore(files) \cup Listed(files, SKILLS_DIR, {}) : files[f] # <<>>}

PutsOf(p) == {sync[p].puts[i] : i \in 1..Len(sync[p].puts)}

MarkerPutBy(p) ==
    \E i \in 1..Len(log) :
        log[i] = Call(SyncWho(p), "put", LAST_SYNC_KEY, sync[p].result.lastSync)

(***************************************************************************)
(* C2: one sync pass uploads every syncable file                           *)
(***************************************************************************)
\* C2 as stated: for a sandbox with N >= 1 syncable files and no corrupt path,
\* a finished pass has put exactly N file objects, one per file under
\* <prefix>/<relative-path>, has written the marker and reports success with N.
C2_EverySyncableFileUploaded ==
    \A p \in Passes :
        LET files == sync[p].fs0
            N == Cardinality(SyncableFiles(files))
        IN  (sync[p].pc = "done" /\ bucketBound /\ NoCorruptPath(files) /\ N >= 1)
            => /\ sync[p].result.success
               /\ sync[p].result.synced = N
               /\ Len(sync[p].puts) = N
               /\ PutsOf(p) = {[key |-> KeyOf(f), path |-> f] : f \in SyncableFiles(files)}
               /\ MarkerPutBy(p)

\* C2 amended: when the config directory lists a file and N >= 1 listed files
\* of the three trees have content, a finished pass has put exactly N file
\* objects, one per such file under <prefix>/<relative-path> with the file's
\* content, has written the marker and reports success with N.
C2_EveryListedFileWithContentUploaded ==
    \A p \in Passes :
        LET files == sync[p].fs0
            U == Uploadable(files)
            N == Cardinality(U)
        IN  (sync[p].pc = "done" /\ bucketBound /\ ListedConfigDir(files) # <<>> /\ N >= 1)
            => /\ sync[p].result.success
               /\ sync[p].result.synced = N
               /\ Len(sync[p].puts) = N
               /\ PutsOf(p) = {[key |-> KeyOf(f), path |-> f] : f \in U}
               /\ \A f \in U : KeyOf(f) \in DOMAIN bucket /\ bucket[KeyOf(f)] = files[f]
               /\ MarkerPutBy(p)

\* a pass that uploaded one file of the config tree and one of the workspace
C2_Witness ==
    /\ sync[1].pc = "done"
    /\ sync[1].result.success
    /\ sync[1].result.synced = 2
    /\ NoCorruptPath(sync[1].fs0)
    /\ \E i, j \in 1..Len(sync[1].puts) :
          /\ Under(sync[1].puts[i].path, OPENCLAW_DIR)
          /\ Under(sync[1].puts[j].path, CLAWD_DIR)

(***************************************************************************)
(* C4: sync is idempotent                                                  *)
(***************************************************************************)
SameSandbox == sync[2].fs0 = sync[1].fs0

\* C4: when a second pass follows a first one on an unchanged sandbox, object
\* storage has after the second pass the keys it had after the first, and
\* every key but the marker has the same content.
C4_SyncIdempotent ==
    (sync[2].pc = "done" /\ SameSandbox)
    => /\ DOMAIN bucket = DOMAIN sync[2].bucket0
       /\ \A k \in DOMAIN bucket \ {LAST_SYNC_KEY} : bucket[k] = sync[2].bucket0[k]

\* two successful passes; the first swept a corrupted key and overwrote an
\* older object; the second one only moved the marker
C4_Witness ==
    /\ sync[2].pc = "done"
    /\ SameSandbox
    /\ sync[1].result.success /\ sync[2].result.success
    /\ sync[1].deleted # {}
    /\ \E k \in DOMAIN sync[1].bucket0 \cap DOMAIN bucket : sync[1].bucket0[k] # bucket[k]
    /\ bucket[LAST_SYNC_KEY] # sync[2].bucket0[LAST_SYNC_KEY]

(***************************************************************************)
(* C5: the corruption sweep                                                *)
(***************************************************************************)
SweepDone(p) == sync[p].pc = "list" /\ sync[p].tree = 1

\* C5: when the sweep of a pass is over, the keys it deleted are exactly the
\* listed keys that contain a quote, a brace or a literal \n, and every other
\* key that was there is still there with its value.
C5_SweepDeletesExactlyCorruptKeys ==
    \A p \in Passes :
        SweepDone(p)
        => LET before == sync[p].bucket0
               corrupt == {k \in DOMAIN before : HasCorruptionSign(k)}
           IN  /\ sync[p].deleted = corrupt
               /\ DOMAIN bucket = DOMAIN before \ corrupt
               /\ \A k \in DOMAIN bucket : bucket[k] = before[k]

(***************************************************************************)
(* C1: sync, then restore into an empty sandbox                            *)
(***************************************************************************)
\* a successful pass, then a restore into the empty sandbox, both finished
RoundTripDone ==
    /\ bucketBound
    /\ sync[1].pc = "done"
    /\ sync[1].result.success
    /\ restore.pc = "done"

RestoredAsSynced(f) == f \in DOMAIN fs /\ fs[f] = sync[1].fs0[f]

\* C1 as stated: after a sync of a sandbox without corrupt paths and a restore
\* into an empty sandbox, every syncable file is back at its path with the
\* content it had at sync time.
C1_EverySyncableFileRestored ==
    (RoundTripDone /\ NoCorruptPath(sync[1].fs0))
    => \A f \in SyncableFiles(sync[1].fs0) : RestoredAsSynced(f)

\* the files of a pass that restore brings back: listed with content under
\* /root/.openclaw or in the workspace outside skills, no .jsonl or .bak in
\* the key, and not the marker file that restore writes itself
RoundTripFiles(files) ==
    {f \in Uploadable(files) \cap ListedCore(files) :
        /\ Under(f, OPENCLAW_DIR) \/ Under(f, CLAWD_DIR)
        /\ \A ext \in SKIP_EXTENSIONS : ~Includes(KeyOf(f), ext)
        /\ f # LAST_SYNC_FILE}

\* C1 amended: after a successful sync and a restore into an empty sandbox,
\* every file that the pass listed with content under /root/.openclaw or in
\* the workspace outside the skills subtree, whose key has neither .jsonl nor
\* .bak, other than /root/.openclaw/.last-sync, is back at its path with the
\* content it had at sync time.
C1_RoundTrip ==
    RoundTripDone => \A f \in RoundTripFiles(sync[1].fs0) : RestoredAsSynced(f)

\* a config file and a workspace file went to the bucket and came back
C1_Witness ==
    /\ RoundTripDone
    /\ restore.ret = JsBoolean(TRUE)
    /\ Cardinality(RoundTripFiles(sync[1].fs0)) = 2
    /\ \A f \in RoundTripFiles(sync[1].fs0) : RestoredAsSynced(f)

(***************************************************************************)
(* C3: no marker, no restore                                               *)
(***************************************************************************)
TouchesSandbox(c) == c.who = RestoreWho /\ c.op \in {"mkdir", "writeFile"}

NoMarkerRestoreDone ==
    /\ bucketBound
    /\ LAST_SYNC_KEY \notin DOMAIN bucket
    /\ restore.pc = "done"

C6_NoCorruptKeyRestored ==
    \A i \in 1..Len(restore.written) : ~HasCorruptionSign(restore.written[i].key)

(***************************************************************************)
(* C7: the restore skip rule                                               *)
(***************************************************************************)
HasExcludedExtension(k) == \E ext \in SKIP_EXTENSIONS : Includes(k, ext)

RestoredPrefix(k) == \E i \in 1..Len(RESTORE_PREFIXES) : StartsWith(k, RESTORE_PREFIXES[i].prefix)

\* the objects of the restored prefixes that the skip rule leaves
Remaining ==
    {k \in DOMAIN bucket :
        /\ RestoredPrefix(k)
        /\ ~EndsWith(k, "/")
        /\ ~HasExcludedExtension(k)
        /\ ~HasCorruptionSign(k)}

\* C7: a finished restore has written as many files from objects as the
\* restored prefixes hold objects that are neither directory markers, nor of
\* an excluded extension, nor corrupt.
C7_WritesRemainingObjects ==
    (restore.pc = "done" /\ bucketBound /\ LAST_SYNC_KEY \in DOMAIN bucket)
    => Len(restore.written) = Cardinality(Remaining)

(***************************************************************************)
(* C8, C9, C10: the bounded command runner                                 *)
(***************************************************************************)
Settled == exec.pc \in {"returned", "threw"}

\* C8: execCommand comes back after at most two sleeps (the head start and
\* one retry sleep) and at most two reads, whatever startProcess and the
\* reads do, also when they never complete.
C8_ExecCommandIsBounded ==
    /\ [](Len(exec.sleeps) <= 2 /\ exec.reads <= 2)
    /\ <>Settled

NoReadSawMarker ==
    /\ exec.pc = "returned"
    /\ exec.reads = 2
    /\ ~HasMarker(exec.content)
    /\ ~HasMarker(exec.retry)

\* C9 as stated: when neither read shows the marker, execCommand returns the
\* empty string.
C9_NoMarkerReturnsEmpty == NoReadSawMarker => exec.ret = <<>>

\* C9 amended: when neither read shows the marker, execCommand returns the
\* trimmed text of the last read that returned text (the retry, else the
\* first read), and the empty string when both reads returned null.
C9_NoMarkerReturnsLastText ==
    NoReadSawMarker
    => exec.ret = (IF ~exec.retry.null THEN Trim(exec.retry.text)
                   ELSE IF ~exec.content.null THEN Trim(exec.content.text)
                   ELSE <<>>)

\* the first read found an empty file, the retry the output without marker
C9_Witness ==
    /\ NoReadSawMarker
    /\ ~exec.content.null /\ exec.content.text = <<>>
    /\ ~exec.retry.null /\ exec.retry.text = <<" ", "out", "\n">>
    /\ exec.ret = <<"out">>

\* C10: execCommand never raises to its caller.
C10_ExecCommandNeverRaises == exec.pc # "threw"

(***************************************************************************)
(* C13: syncToR2 never throws                                              *)
(***************************************************************************)
\* C13: whatever call on the sandbox or on object storage rejects during a
\* pass, syncToR2 does not throw: the pass ends with a structured result.
C13_SyncNeverThrows == \A p \in Passes : sync[p].pc # "threw"

(***************************************************************************)
(* C14: partial-failure tolerance                                          *)
(***************************************************************************)
\* the files whose read or upload was rejected during pass p
FailedFiles(p) ==
    {f \in DOMAIN sync[p].fs0 :
        \/ FailedCall("readFileStream", f) \in sync[p].failed
        \/ FailedCall("put", KeyOf(f)) \in sync[p].failed}

\* the rejections of pass p all hit the read or the upload of a file
OnlyFileCallsFailed(p) ==
    \A c \in sync[p].failed :
        \/ c.op = "readFileStream"
        \/ c.op = "put" /\ c.arg # LAST_SYNC_KEY

ListedFiles(files) == ListedCore(files) \cup Listed(files, SKILLS_DIR, {})

\* C14 as stated: when the read or the upload of a listed file fails, every
\* other listed file is uploaded and the pass reports success with the number
\* of uploaded files.
C14_OneFailureOthersUploaded ==
    \A p \in Passes :
        (sync[p].pc = "done" /\ FailedFiles(p) # {} /\ OnlyFileCallsFailed(p))
        => /\ ListedFiles(sync[p].fs0) \ FailedFiles(p) = {u.path : u \in PutsOf(p)}
           /\ sync[p].result.success
           /\ sync[p].result.synced = Len(sync[p].puts)

\* C14 amended: when only reads or uploads of files are rejected, the files
\* uploaded are exactly the listed files with content whose read and upload
\* were not rejected, each stored with its content; the pass reports success
\* with their number when there is at least one, 'Nothing to sync' otherwise.
C14_FailuresSkipOnlyTheirFile ==
    \A p \in Passes :
        LET files == sync[p].fs0
            U == Uploadable(files) \ FailedFiles(p)
        IN  (sync[p].pc = "done" /\ FailedFiles(p) # {} /\ OnlyFileCallsFailed(p))
            => /\ PutsOf(p) = {[key |-> KeyOf(f), path |-> f] : f \in U}
               /\ Len(sync[p].puts) = Cardinality(U)
               /\ \A f \in U : KeyOf(f) \in DOMAIN bucket /\ bucket[KeyOf(f)] = files[f]
               /\ U # {} => /\ sync[p].result.success
                            /\ sync[p].result.synced = Cardinality(U)
               /\ U = {} => sync[p].result = Failure("Nothing to sync")

\* a pass in which the read of one file was rejected and another file was
\* uploaded
C14_Witness ==
    /\ sync[1].pc = "done"
    /\ sync[1].result.success
    /\ \E c \in sync[1].failed : c.op = "readFileStream"
    /\ FailedFiles(1) # {}
    /\ OnlyFileCallsFailed(1)
    /\ Len(sync[1].puts) >= 1

(***************************************************************************)
(* C15: 'Nothing to sync'                                                  *)
(***************************************************************************)
ProbedLegacy(p) ==
    \E i \in 1..Len(log) : log[i] = Call(SyncWho(p), "execStream", CLAWDBOT_DIR, <<>>)

\* C15: a pass with a configured bucket fails with 'Nothing to sync' exactly
\* when neither config path lists a file or no file was uploaded from the
\* three trees; the legacy path is listed only when the primary path lists
\* no file.
C15_NothingToSync ==
    \A p \in Passes :
        (sync[p].pc = "done" /\ bucketBound)
        => /\ sync[p].result = Failure("Nothing to sync")
              <=> (ListedConfigDir(sync[p].fs0) = <<>> \/ Len(sync[p].puts) = 0)
           /\ ProbedLegacy(p) => Listed(sync[p].fs0, OPENCLAW_DIR, {}) = {}

\* a pass that found the primary config directory but uploaded nothing
C15_Witness ==
    /\ sync[1].pc = "done"
    /\ bucketBound
    /\ sync[1].result = Failure("Nothing to sync")
    /\ sync[1].configDir = OPENCLAW_DIR
    /\ sync[1].listed # {}
    /\ ~ProbedLegacy(1)

(***************************************************************************)
(* C16: missing bucket binding                                             *)
(***************************************************************************)
CallsOf(who) == {i \in 1..Len(log) : log[i].who = who}

\* C16: without the bucket binding a pass returns the failure 'R2 bucket
\* binding not configured', calls neither the sandbox nor object storage, and
\* leaves both as they were.
C16_NoBindingNoCalls ==
    \A p \in Passes :
        (sync[p].pc = "done" /\ ~bucketBound)
        => /\ sync[p].result = Failure("R2 bucket binding not configured")
           /\ CallsOf(SyncWho(p)) = {}
           /\ bucket = sync[p].bucket0
           /\ fs = sync[p].fs0

\* a pass without the binding on a sandbox with a config file and a bucket
\* with a corrupted key
C16_Witness ==
    /\ sync[1].pc = "done"
    /\ ~bucketBound
    /\ Listed(fs, OPENCLAW_DIR, {}) # {}
    /\ \E k \in DOMAIN bucket : isCorruptedKey(k)

(***************************************************************************)
(* C17: the sweep runs on every pass                                       *)
(***************************************************************************)
\* C17: every pass with a configured bucket lists object storage and deletes
\* the corrupt keys, whatever its result.
C17_EveryPassSweeps ==
    \A p \in Passes :
        (sync[p].pc = "done" /\ bucketBound)
        => /\ \E i \in CallsOf(SyncWho(p)) : log[i].op = "list"
           /\ \A k \in DOMAIN sync[p].bucket0 : HasCorruptionSign(k) => k \notin DOMAIN bucket

(***************************************************************************)
(* C11: supervisor idempotence                                             *)
(***************************************************************************)
RunningGateways == {i \in 1..Len(procs) : isGateway(procs[i]) /\ procs[i].status = "running"}

\* both requests are over: ensureRunning settled and cleanupOrphans ran
EnsureSettled == \A r \in Requests : admin[r].pc = "done" /\ admin[r].cleanup.ran

\* C11: when ensureRunning is called twice at once while no gateway exists,
\* at most one gateway process is running once both calls have settled and
\* cleanupOrphans has run.
C11_AtMostOneGateway == EnsureSettled => Cardinality(RunningGateways) <= 1

(***************************************************************************)
(* C12: every admin operation returns                                      *)
(***************************************************************************)
\* C12: every admin operation eventually gives its caller a response, even
\* when a sandbox primitive it calls never settles.
C12_EveryOperationReturns == <>(admin[1].response # NoResponse)

(***************************************************************************)
(* C18: ensureRunning comes first                                          *)
(***************************************************************************)
\* C18 as stated: the first call of every admin operation is ensureRunning.
C18_EnsureRunningFirst ==
    \A r \in Requests :
        admin[r].calls # <<>> => admin[r].calls[1] = "ensureMoltbotGateway"

\* C18 amended: device list, approve and approve-all call ensureRunning
\* first and once; manual sync never calls it; restart calls it last, after
\* it looked for the existing gateway (and killed it).
C18_EnsureFirstInDeviceOperations ==
    \A r \in Requests :
        LET c == admin[r].calls
            at == {i \in 1..Len(c) : c[i] = "ensureMoltbotGateway"}
        IN  /\ (admin[r].kind \in {"devices", "approve", "approveAll"} /\ c # <<>>)
               => at = {1}
            /\ admin[r].kind = "sync" => at = {}
            /\ admin[r].kind = "restart"
               => /\ at \subseteq {Len(c)}
                  /\ c # <<>> => c[1] = "findExistingMoltbotProcess"
                  /\ admin[r].pc = "done" => at # {}

\* a device list that ensured the gateway, cleaned up and ran its command
C18_Witness ==
    /\ admin[1].kind = "devices"
    /\ admin[1].pc = "done"
    /\ admin[1].calls = <<"ensureMoltbotGateway", "cleanupOrphanedProcesses", "execCommand">>
    /\ admin[1].response.status = 200

(***************************************************************************)
(* C19: approvals are sequential                                           *)
(***************************************************************************)
IsApproval(e) == e.cmd # DevicesList

Approvals(r) == SelectSeq(admin[r].events, IsApproval)

\* C19: in one approve-all the approval of a device starts only after the
\* approval of the device before it has returned: starts and returns
\* alternate, device by device in the order of the listing.
C19_ApprovalsSequential ==
    \A r \in Requests :
        admin[r].kind = "approveAll"
        => \A i \in 1..Len(Approvals(r)) :
              /\ Approvals(r)[i].what = IF i % 2 = 1 THEN "start" ELSE "return"
              /\ Approvals(r)[i].cmd = DevicesApprove(admin[r].pending[(i + 1) \div 2])

\* an approve-all that approved two pending devices
C19_Witness ==
    /\ admin[1].kind = "approveAll"
    /\ admin[1].pc = "done"
    /\ Len(admin[1].pending) = 2
    /\ Len(admin[1].results) = 2
    /\ Len(Approvals(1)) = 4

(***************************************************************************)
(* C20: the ceiling of cleanupOrphans                                      *)
(***************************************************************************)
\* C20: cleanupOrphans kills processes exactly when more than 5 processes
\* are live (running or starting); with 5 or fewer it kills nothing and
\* returns 0.
C20_KillsIffLiveCountExceedsFive ==
    \A r \in Requests :
        (admin[r].cleanup.ran /\ admin[r].cleanup.rejections = 0)
        => /\ admin[r].cleanup.killed # {} <=> admin[r].cleanup.live > 5
           /\ admin[r].cleanup.live <= 5 => admin[r].cleanup.ret = 0

(***************************************************************************)
(* C28: the event stream parser                                            *)
(***************************************************************************)
\* position i of raw is part of a blank line
IsBreak(raw, i) == raw[i] = SEPARATOR

\* the positions where a block of raw begins
BlockStarts(raw) ==
    {i \in 1..Len(raw) : ~IsBreak(raw, i) /\ (i = 1 \/ IsBreak(raw, i - 1))}

\* the block of raw that begins at position a
BlockAt(raw, a) ==
    LET b == CHOOSE e \in a..Len(raw) :
                 /\ \A j \in a..e : ~IsBreak(raw, j)
                 /\ e = Len(raw) \/ IsBreak(raw, e + 1)
    IN SubSeq(raw, a, b)

\* text without the blanks around it
RECURSIVE Bare(_)
Bare(text) ==
    IF text # <<>> /\ Head(text) \in {SPACE, NEWLINE} THEN Bare(Tail(text))
    ELSE IF text # <<>> /\ text[Len(text)] \in {SPACE, NEWLINE}
         THEN Bare(SubSeq(text, 1, Len(text) - 1))
    ELSE text

\* the payload of a block: trimmed, without a leading 'data: '
Payload(block) ==
    LET line == Bare(block)
    IN IF line # <<>> /\ line[1] = DATA_PREFIX THEN Bare(Tail(line)) ELSE line

Decodable(block) == Len(Payload(block)) = 1 /\ Payload(block)[1].kind = "json"

RECURSIVE DecodedFrom(_, _)
DecodedFrom(raw, i) ==
    IF i > Len(raw) THEN <<>>
    ELSE (IF i \in BlockStarts(raw) /\ Decodable(BlockAt(raw, i))
          THEN <<Payload(BlockAt(raw, i))[1].evt>> ELSE <<>>)
         \o DecodedFrom(raw, i + 1)

\* C28: the parser returns, in input order, exactly the values of the
\* JSON-decodable blocks of the input split on blank lines, each block trimmed
\* and rid of a leading 'data: '; undecodable and empty blocks are dropped
\* and the blocks after them are still returned.
C28_ParserReturnsDecodableBlocks ==
    parse.pc = "done" => parse.events = DecodedFrom(parse.raw, 1)

\* a stream was parsed whose undecodable block comes before a decodable one
C28_Witness ==
    /\ parse.pc = "done"
    /\ parse.events # <<>>
    /\ \E a, b \in BlockStarts(parse.raw) :
          /\ a < b
          /\ ~Decodable(BlockAt(parse.raw, a))
          /\ Decodable(BlockAt(parse.raw, b))

(***************************************************************************)
(* C29: file content is the chunks, in arrival order                       *)
(***************************************************************************)
\* the data of the chunk events among the first n events, in arrival order
RECURSIVE ChunksUpTo(_, _)
ChunksUpTo(events, n) ==
    IF n = 0 THEN <<>>
    ELSE ChunksUpTo(events, n - 1)
         \o (IF events[n].type = "chunk" THEN events[n].data ELSE <<>>)

\* C29: the content extracted for upload from a file's read stream is the
\* concatenation, in arrival order, of the data of the stream's chunk events;
\* events of any other type contribute nothing.
C29_ContentIsChunksInOrder ==
    parse.pc = "done" => parse.fileContent = ChunksUpTo(parse.events, Len(parse.events))

\* a stream with two different chunks around an event of another type that
\* carries data was read
C29_Witness ==
    /\ parse.pc = "done"
    /\ \E i, j, k \in 1..Len(parse.events) :
          /\ i < j /\ j < k
          /\ parse.events[i].type = "chunk"
          /\ parse.events[j].type # "chunk" /\ parse.events[j].data # <<>>
          /\ parse.events[k].type = "chunk"
          /\ parse.events[i].data # parse.events[k].data
    /\ Len(parse.fileContent) = 2

(***************************************************************************)
(* C30: waitForProcess                                                     *)
(***************************************************************************)
\* as stated: a poll is taken only while the process is starting, so the
\* wait is over as soon as the status is anything else
C30_PollsOnlyWhileStarting ==
    \A i \in 1..Len(wait.polledOn) : wait.polledOn[i] = "starting"

\* C30: waitForProcess polls only while the process is running or starting,
\* takes at most ceil(timeoutMs / pollIntervalMs) polls, and returns as soon
\* as the status is neither running nor starting or that many polls (at
\* least timeoutMs of sleep) are behind it.
C30_StopsWhenSettledOrTimedOut ==
    /\ \A i \in 1..Len(wait.polledOn) : wait.polledOn[i] \in {"running", "starting"}
    /\ wait.attempts = Len(wait.polledOn)
    /\ wait.pc # "idle" => wait.attempts <= wait.maxAttempts
    /\ wait.pc = "done"
          => \/ wait.status \notin {"running", "starting"}
             \/ /\ wait.attempts = wait.maxAttempts
                /\ wait.attempts * wait.pollIntervalMs >= wait.timeoutMs
                /\ (wait.attempts - 1) * wait.pollIntervalMs < wait.timeoutMs
                      \/ wait.attempts = 0

\* a wait polled a running process and ended before its last allowed poll
C30_Witness ==
    /\ wait.pc = "done"
    /\ \E i \in 1..Len(wait.polledOn) : wait.polledOn[i] = "running"
    /\ wait.attempts < wait.maxAttempts

(***************************************************************************)
(* C21: what cleanupOrphans kills                                          *)
(***************************************************************************)
GatewaySignatures ==
    {"start-openclaw.sh", "openclaw gateway", "start-moltbot.sh", "clawdbot gateway"}

HasGatewaySignature(command) == \E sig \in GatewaySignatures : Includes(command, sig)

\* the processes of a listing that are running or starting and are no gateway
Orphans(processes) ==
    {processes[i].id : i \in {j \in 1..Len(processes) :
        /\ processes[j].status \in {"running", "starting"}
        /\ ~HasGatewaySignature(processes[j].command)}}

\* the step of request r is a cleanup that found more than five processes
Triggered(r) ==
    admin[r].pc = "cleanup" /\ admin'[r].cleanup.ran /\ admin'[r].cleanup.listed > 5

\* C21: a triggered cleanup attempts the kill of every running or starting
\* process without a gateway signature and of no other process, a kill that
\* throws leaves the other kills in place, no process with a gateway
\* signature is killed, and the count returned is the number of kills that
\* succeeded.
C21_KillsEveryOrphanOnly ==
    [][\A r \in Requests :
          Triggered(r) =>
              LET c == admin'[r].cleanup
              IN /\ c.attempted = Orphans(procs)
                 /\ c.killed = c.attempted \ c.rejected
                 /\ \A i \in 1..Len(procs) :
                       /\ HasGatewaySignature(procs[i].command) => procs[i].id \notin c.killed
                       /\ procs[i].id \in c.killed <=> procs[i].id \notin ProcIds(procs')
                 /\ c.ret = Cardinality(c.killed)]_vars

\* a cleanup found more than five processes, a live gateway stayed in the
\* table, a kill threw and a process listed after that one was killed
C21_Witness ==
    \E r \in Requests :
        LET c == admin[r].cleanup
        IN /\ c.ran /\ c.listed > 5
           /\ \E i \in 1..Len(procs) : HasGatewaySignature(procs[i].command) /\ Live(procs[i])
           /\ \E b \in c.rejected, k \in c.killed : b < k

(***************************************************************************)
(* C22: gateway restart                                                    *)
(***************************************************************************)
Booted(r) == \E i \in 1..Len(admin[r].calls) : admin[r].calls[i] = "ensureMoltbotGateway"

\* C22: a restart kills the gateway it found, waits for the teardown and
\* only then starts ensureRunning, in the background: from the moment
\* ensureRunning is started the success response with the previous process
\* id is out, whether or not the kill threw and before ensureRunning has
\* settled; without an existing gateway nothing is killed.
C22_RestartAnswersBeforeBoot ==
    \A r \in Requests :
        admin[r].kind = "restart" =>
            /\ Booted(r) =>
                  /\ admin[r].response.status = 200
                  /\ admin[r].previousProcessId = admin[r].existing
                  /\ admin[r].calls =
                        IF admin[r].existing # 0
                        THEN <<"findExistingMoltbotProcess", "kill", "setTimeout",
                               "ensureMoltbotGateway">>
                        ELSE <<"findExistingMoltbotProcess", "ensureMoltbotGateway">>
            /\ ~Booted(r) =>
                  /\ admin[r].response = NoResponse
                  /\ admin[r].pc \notin {"ensure_find", "ensure_start", "ensure_wait"}
            /\ admin[r].killFailed => admin[r].response.status # 500

\* the kill of the existing gateway threw, the success response is out and
\* ensureRunning has been started but has not settled
C22_Witness ==
    \E r \in Requests :
        /\ admin[r].kind = "restart"
        /\ admin[r].killFailed
        /\ admin[r].pc = "ensure_find"
        /\ admin[r].response.status = 200
        /\ admin[r].previousProcessId # 0

(***************************************************************************)
(* C24: one output file per execCommand invocation                         *)
(***************************************************************************)
\* the execCommand invocations made so far: request and position
Invocations == {<<r, i>> : r \in Requests, i \in 1..MaxDevices + 1}
                  \cap {x \in Requests \X (1..MaxDevices + 1) : x[2] <= Len(admin[x[1]].outFiles)}

\* C24: no two execCommand invocations, of one request or of overlapping
\* requests, use the same output file.
C24_OutputFilesUnique ==
    \A x, y \in Invocations :
        x # y => admin[x[1]].outFiles[x[2]] # admin[y[1]].outFiles[y[2]]

(***************************************************************************)
(* C25: one listed file per key put                                        *)
(***************************************************************************)
\* the keys of the file objects pass p has put
FileKeysPutBy(p) ==
    {log[i].arg : i \in {j \in 1..Len(log) :
        /\ log[j].who = SyncWho(p)
        /\ log[j].op = "put"
        /\ log[j].arg # LAST_SYNC_KEY}}

\* C25: every file-object key a pass puts is the key of exactly one file
\* that the listings of that pass returned, no key is put twice, and two
\* different listed files never have the same key.
C25_OneListedFilePerKey ==
    \A p \in Passes :
        /\ \A k \in FileKeysPutBy(p) :
              Cardinality({f \in sync[p].listed : KeyOf(f) = k}) = 1
        /\ \A i, j \in 1..Len(sync[p].puts) :
              /\ sync[p].puts[i].path \in sync[p].listed
              /\ sync[p].puts[i].key \in FileKeysPutBy(p)
              /\ i # j => sync[p].puts[i].key # sync[p].puts[j].key
        /\ Cardinality(FileKeysPutBy(p)) = Len(sync[p].puts)
        /\ \A f, g \in sync[p].listed : f # g => KeyOf(f) # KeyOf(g)

\* a pass listed a file of the skills tree and a file of the config tree and
\* put a key for each
C25_Witness ==
    /\ sync[1].pc = "done"
    /\ \E f, g \in sync[1].listed :
          /\ Under(f, SKILLS_DIR) /\ ~Under(g, CLAWD_DIR)
          /\ {KeyOf(f), KeyOf(g)} \subseteq FileKeysPutBy(1)
    /\ Cardinality(FileKeysPutBy(1)) = 2

(***************************************************************************)
(* C26: skill files are not restored                                       *)
(***************************************************************************)
SkillsKey(k) == StartsWith(k, <<"skills", "/">>)

\* C26: a restore lists the prefixes openclaw/ and workspace/ and no other,
\* reads no object under skills/ and writes no sandbox file from one.
C26_SkillsNeverRestored ==
    /\ \A i \in 1..Len(log) :
          log[i].who = RestoreWho =>
              /\ log[i].op = "list" => log[i].arg \in {<<"openclaw", "/">>, <<"workspace", "/">>}
              /\ log[i].op = "get" => ~SkillsKey(log[i].arg)
    /\ \A i \in 1..Len(restore.written) : ~SkillsKey(restore.written[i].key)

\* a restore over a bucket that holds a skills/ object is done and has
\* restored a file
C26_Witness ==
    /\ restore.pc = "done"
    /\ \E k \in DOMAIN bucket : SkillsKey(k)
    /\ Len(restore.written) >= 1

(***************************************************************************)
(* C27: the marker file of a restore                                       *)
(***************************************************************************)
\* the writes of /root/.openclaw/.last-sync a restore has asked for
MarkerWrites ==
    {i \in 1..Len(log) :
        /\ log[i].who = RestoreWho
        /\ log[i].op = "writeFile"
        /\ log[i].arg = LAST_SYNC_FILE}

\* C27: a restore that is done has asked for the write of
\* /root/.openclaw/.last-sync if and only if it restored at least one file,
\* and the value it wrote is what the .last-sync object held at the start
\* of the pass.
C27_MarkerIffFilesRestored ==
    restore.pc = "done" =>
        /\ MarkerWrites # {} <=> Len(restore.written) >= 1
        /\ \A i \in MarkerWrites : log[i].val = bucket[LAST_SYNC_KEY]

(***************************************************************************)
(* C23: overlapping passes converge                                        *)
(***************************************************************************)
\* the file objects of a bucket: every object but the marker
FileObjects(objs) == [k \in DOMAIN objs \ {LAST_SYNC_KEY} |-> objs[k]]

\* the file objects one pass alone leaves behind, from the sandbox and the
\* bucket it starts on: the swept keys are gone and every listed file with
\* content is stored under its key
AfterOnePass(files, objs) ==
    IF ListedConfigDir(files) = <<>> THEN FileObjects(objs)
    ELSE LET kept == {k \in DOMAIN objs \ {LAST_SYNC_KEY} :
                        ~(Includes(k, "\"") \/ Includes(k, "{") \/ Includes(k, "\\n"))}
             put == {KeyOf(f) : f \in Uploadable(files)}
         IN [k \in kept \cup put |->
                IF k \in put THEN files[CHOOSE f \in Uploadable(files) : KeyOf(f) = k]
                ELSE objs[k]]

\* the calls of the two passes are interleaved
Interleaved ==
    \E i, j, k \in 1..Len(log) :
        /\ i < j /\ j < k
        /\ log[i].who = SyncWho(1) /\ log[j].who = SyncWho(2) /\ log[k].who = SyncWho(1)

\* C23: when two passes have run over an unchanged sandbox, interleaved or
\* not, the file objects of the bucket, keys and content, are those a single
\* pass leaves behind.
C23_OverlappingPassesConverge ==
    (\A p \in Passes : sync[p].pc = "done")
        => FileObjects(bucket) = AfterOnePass(sync[1].fs0, sync[1].bucket0)

\* two interleaved passes are done, each has put a file object, and the
\* bucket they started on held a key to sweep and an older version of a file
C23_Witness ==
    /\ \A p \in Passes : sync[p].pc = "done" /\ Len(sync[p].puts) >= 1
    /\ Interleaved
    /\ \E k \in DOMAIN sync[1].bucket0 : isCorruptedKey(k)
    /\ \E k \in DOMAIN sync[1].bucket0 : k \in FileKeysPutBy(1) /\ k \in FileKeysPutBy(2)

(***************************************************************************)
(* C31: the listing of a prefix is walked to its end                       *)
(***************************************************************************)
\* the keys the bucket holds under a prefix, in listing order
KeysUnder(prefix) == SortKeys({k \in DOMAIN bucket : StartsWith(k, prefix)})

\* the cursors of the list calls made for a prefix, in call order
ListCursors(prefix) ==
    LET IsList(c) == c.who = RestoreWho /\ c.op = "list" /\ c.arg = prefix
        lists == SelectSeq(log, IsList)
    IN [j \in 1..Len(lists) |-> lists[j].val]

\* the cursors of an exhaustive walk: none, then the last key of each page
\* that has a page after it
WalkCursors(all) ==
    LET pages == IF all = <<>> THEN 1 ELSE (Len(all) + PageSize - 1) \div PageSize
    IN [j \in 1..pages |-> IF j = 1 THEN <<>> ELSE all[(j - 1) * PageSize]]

RestorePrefixReturns == restore.pc = "object" /\ restore'.pc = "prefix"

\* C31: when restorePrefix returns, it has listed every page of the prefix in
\* cursor order, its loop has gone over every object of the prefix in listing
\* order, and the last page it listed was not truncated
C31_WalksEveryPage ==
    [][RestorePrefixReturns =>
          LET all == KeysUnder(RESTORE_PREFIXES[restore.p].prefix)
          IN /\ restore.seen = all
             /\ ListCursors(RESTORE_PREFIXES[restore.p].prefix) = WalkCursors(all)
             /\ ~restore.page.truncated]_vars

\* restorePrefix has returned for a prefix of two pages or more
C31_Witness ==
    /\ restore.pc = "prefix"
    /\ restore.p = 2
    /\ Len(restore.seen) > PageSize
    /\ restore.seen = KeysUnder(RESTORE_PREFIXES[1].prefix)
    /\ Len(ListCursors(RESTORE_PREFIXES[1].prefix)) >= 2

(***************************************************************************)
(* C32: a failing object or prefix does not stop the restore               *)
(***************************************************************************)
\* the file an object of a restored prefix is written to
ContainerPath(i, key) ==
    RESTORE_PREFIXES[i].dir \o <<"/">> \o Slice(key, Len(RESTORE_PREFIXES[i].prefix))

\* the objects of a restored prefix that a restore writes into the sandbox
Restorable(i) ==
    {k \in DOMAIN bucket :
        /\ StartsWith(k, RESTORE_PREFIXES[i].prefix)
        /\ Len(k) > Len(RESTORE_PREFIXES[i].prefix)
        /\ ~shouldSkipKey(k)}

\* the calls about one object that rejected
ObjectFailed(i, k) ==
    \/ FailedCall("get", k) \in restore.failed
    \/ FailedCall("writeFile", ContainerPath(i, k)) \in restore.failed

PrefixFailed(i) == FailedCall("list", RESTORE_PREFIXES[i].prefix) \in restore.failed

\* C32: restoreFromR2 throws only when the read of the marker rejects; a
\* restore that returned has written every restorable object whose own get and
\* writeFile did not reject and whose prefix had no rejected listing
C32_FailuresAreSkipped ==
    /\ restore.pc = "threw" => restore.failed = {FailedCall("get", LAST_SYNC_KEY)}
    /\ (restore.pc = "done" /\ restore.lastSync # <<>>) =>
          \A i \in 1..Len(RESTORE_PREFIXES) : \A k \in Restorable(i) :
              (~PrefixFailed(i) /\ ~ObjectFailed(i, k)) =>
                  /\ ContainerPath(i, k) \in DOMAIN fs
                  /\ fs[ContainerPath(i, k)] = bucket[k]

\* the listing of the first prefix rejected and an object of the second prefix
\* is restored
C32_Witness ==
    /\ restore.pc = "done"
    /\ PrefixFailed(1)
    /\ Restorable(1) # {}
    /\ \E k \in Restorable(2) : ContainerPath(2, k) \in DOMAIN fs

(***************************************************************************)
(* C33: the payload of the device listing                                  *)
(***************************************************************************)
\* the closing brace that balances the opening brace at a
ClosingOf(stdout, a) ==
    LET level(b) == Cardinality({j \in a..b : stdout[j] = OPEN})
                    - Cardinality({j \in a..b : stdout[j] = CLOSE})
        ends == {b \in a..Len(stdout) : level(b) = 0}
    IN IF ends = {} THEN 0 ELSE CHOOSE b \in ends : \A o \in ends : b <= o

\* the first balanced {...} span of the output
FirstBalancedSpan(stdout) ==
    LET starts == {a \in 1..Len(stdout) : stdout[a] = OPEN /\ ClosingOf(stdout, a) > 0}
        a == CHOOSE i \in starts : \A j \in starts : i <= j
    IN IF starts = {} THEN <<>> ELSE SubSeq(stdout, a, ClosingOf(stdout, a))

\* a well-formed object: balanced, with members and objects inside only
IsJsonObject(span) ==
    /\ span # <<>>
    /\ \A i \in 1..Len(span) : span[i] # OTHER_TEXT

\* C33: when the first balanced span of the output is a well-formed JSON
\* object, GET /devices answers with that object, whatever text surrounds it
C33_ParsesFirstBalancedObject ==
    (extract.pc = "done" /\ IsJsonObject(FirstBalancedSpan(extract.stdout))) =>
        /\ extract.body.parsed
        /\ <<OPEN>> \o extract.body.value \o <<CLOSE>> = FirstBalancedSpan(extract.stdout)

(***************************************************************************)
(* C34: the outer timeout of GET /devices                                  *)
(***************************************************************************)
\* the step in which the timer of request r wins the race
TimerWins(r) ==
    /\ admin[r].response = NoResponse
    /\ admin'[r].response # NoResponse
    /\ admin'[r].response.message = "Devices endpoint timed out"

\* C34: a request is answered once; when the timer of GET /devices wins, the
\* answer is the 500 error with empty pending and paired lists, and that step
\* changes neither the locals of the handler nor the processes of the sandbox
C34_TimeoutAnswersOnceAndAbandons ==
    [][\A r \in Requests :
          /\ admin[r].response # NoResponse => admin'[r].response = admin[r].response
          /\ TimerWins(r) =>
                /\ admin'[r].response.status = 500
                /\ admin'[r].response.pending = <<>>
                /\ admin'[r].response.paired = <<>>
                /\ admin'[r] = [admin[r] EXCEPT !.response = admin'[r].response]
                /\ procs' = procs]_vars

\* the timer won while the command of the handler was running, and the
\* abandoned handler went on to its end with the command's process left alone
C34_Witness ==
    /\ admin[1].kind = "devices"
    /\ admin[1].response = DevicesTimedOut
    /\ admin[1].pc = "done"
    /\ \E i \in 1..Len(procs) : procs[i].command = CliCommand(DevicesList) /\ Live(procs[i])

(***************************************************************************)
(* C35: directories are made once, and before the files in them            *)
(***************************************************************************)
RestoreCalls(op) == {i \in 1..Len(log) : log[i].who = RestoreWho /\ log[i].op = op}

\* the directory part of a path: what precedes its last slash
ParentDir(path) == SubSeq(path, 1, LastIndexOfSlash(path) - 1)

\* C35: in a restore pass no two mkdir calls name the same directory, and
\* every writeFile call comes after a mkdir call for the directory of its file
C35_MkdirOncePerDirBeforeWrites ==
    /\ \A i, j \in RestoreCalls("mkdir") : log[i].arg = log[j].arg => i = j
    /\ \A w \in RestoreCalls("writeFile") :
          \E i \in RestoreCalls("mkdir") : i < w /\ log[i].arg = ParentDir(log[w].arg)

\* a pass that wrote two files and the marker into one directory, and a file
\* into a directory below it
C35_Witness ==
    /\ restore.pc = "done"
    /\ Cardinality({w \in RestoreCalls("writeFile") : ParentDir(log[w].arg) = OPENCLAW_DIR}) >= 2
    /\ \E w \in RestoreCalls("writeFile") :
          ParentDir(log[w].arg) \notin {OPENCLAW_DIR, CLAWD_DIR}

(***************************************************************************)
(* C36: the marker of a sync pass                                          *)
(***************************************************************************)
\* the puts of the marker that pass p asked for
MarkerPuts(p) ==
    {i \in 1..Len(log) : log[i].who = SyncWho(p) /\ log[i].op = "put"
                                                /\ log[i].arg = LAST_SYNC_KEY}

\* what the bucket holds under the marker key
MarkerIn(b) == IF LAST_SYNC_KEY \in DOMAIN b THEN b[LAST_SYNC_KEY] ELSE <<"absent">>

\* C36: a pass asks for a put of the marker only after it uploaded a file; a
\* pass that returned a failure left the marker as it found it; a pass that
\* returned success put the marker once, with the lastSync it returned
C36_MarkerOnlyOnSuccess ==
    /\ MarkerPuts(1) # {} => sync[1].puts # <<>>
    /\ (sync[1].pc = "done" /\ ~sync[1].result.success) =>
          /\ MarkerIn(bucket) = MarkerIn(sync[1].bucket0)
          /\ MarkerPuts(1) # {} => FailedCall("put", LAST_SYNC_KEY) \in sync[1].failed
    /\ (sync[1].pc = "done" /\ sync[1].result.success) =>
          /\ Cardinality(MarkerPuts(1)) = 1
          /\ \A i \in MarkerPuts(1) : log[i].val = sync[1].result.lastSync
          /\ MarkerIn(bucket) = sync[1].result.lastSync

\* a pass that uploaded a file and returned a failure
C36_Witness ==
    /\ sync[1].pc = "done"
    /\ ~sync[1].result.success
    /\ sync[1].puts # <<>>
    /\ MarkerIn(bucket) = <<"absent">>

(***************************************************************************)
(* C37: a file without content is not uploaded                             *)
(***************************************************************************)
\* the keys a pass may derive from a path: one per tree the path lies in
KeysFor(p, path) ==
    {R2Key(path, t.dir, t.prefix) :
        t \in {u \in Range(SyncTrees(sync[p].configDir)) : StartsWith(path, u.dir \o <<"/">>)}}

\* the value of a key in a bucket, or that it has none
ObjectIn(b, key) == IF key \in DOMAIN b THEN b[key] ELSE <<"absent">>

\* C37: a pass never asks for a put of empty content, and after the pass a
\* listed file without content has no put of its own and its key holds what
\* it held before
C37_EmptyFilesAreNotUploaded ==
    /\ \A i \in 1..Len(log) :
          (log[i].who = SyncWho(1) /\ log[i].op = "put") => log[i].val # <<>>
    /\ sync[1].pc = "done" =>
          /\ \A path \in sync[1].listed : fs[path] = <<>> =>
                /\ \A i \in 1..Len(sync[1].puts) : sync[1].puts[i].path # path
                /\ \A key \in KeysFor(1, path) :
                      ObjectIn(bucket, key) = ObjectIn(sync[1].bucket0, key)
          /\ sync[1].result.success => sync[1].result.synced = Len(sync[1].puts)

\* a pass that uploaded a file and met an empty file whose key holds an older
\* backup
C37_Witness ==
    /\ sync[1].pc = "done"
    /\ sync[1].result.success
    /\ \E path \in sync[1].listed :
          /\ fs[path] = <<>>
          /\ \E key \in KeysFor(1, path) : key \in DOMAIN sync[1].bucket0

(***************************************************************************)
(* C38: the marker under overlapping passes                                *)
(***************************************************************************)
IsoRank(iso) == CHOOSE i \in 1..Len(ISO_STRINGS) : <<ISO_STRINGS[i]>> = iso

\* C38: under any interleaving of overlapping successful passes the timestamp
\* held by .last-sync never moves backwards: every put of the marker stores a
\* timestamp that is at least the one it replaces
C38_MarkerNeverMovesBack ==
    [][\A p \in Passes :
          (/\ sync[p].pc = "marker" /\ sync'[p].pc = "done"
           /\ sync'[p].result.success
           /\ LAST_SYNC_KEY \in DOMAIN bucket
           /\ bucket[LAST_SYNC_KEY] \in {ToISOString(t) : t \in 0..MaxClock})
          => IsoRank(bucket'[LAST_SYNC_KEY]) >= IsoRank(bucket[LAST_SYNC_KEY])]_vars

(***************************************************************************)
(* C39: cleanup and the commands of other requests                         *)
(***************************************************************************)
\* request r waits on the command it started
AwaitsCommand(r) == admin[r].pc = "exec_wait"

\* C39: cleanupOrphanedProcesses running in one request never kills the
\* command process that another overlapping request started with execCommand
\* and is still waiting on
C39_CleanupSparesAwaitedCommands ==
    [][\A r \in Requests : \A o \in Requests \ {r} :
          (admin[r].pc = "cleanup" /\ admin'[r].pc # "cleanup" /\ AwaitsCommand(o))
          => admin[o].proc \notin admin'[r].cleanup.killed]_vars

(***************************************************************************)
(* C40: approve-all attempts every pending device                          *)
(***************************************************************************)
ApprovalStarts(r) ==
    LET started(e) == e.what = "start" /\ e.cmd # DevicesList
    IN  SelectSeq(admin[r].events, started)

TimesIn(seq, x) == Cardinality({i \in 1..Len(seq) : seq[i] = x})

FailedIds(body) == [i \in 1..Len(body.failed) |-> body.failed[i].requestId]

\* C40: an approve-all that answers after its loop attempted every device of
\* the pending list exactly once, in the order of the list, and every device
\* is in exactly one of the approved and failed results, once; an approval
\* that failed or threw did not keep the devices after it from being attempted
C40_EveryPendingDeviceAttemptedOnce ==
    \A r \in Requests :
        (admin[r].kind = "approveAll" /\ admin[r].pc = "done" /\ admin[r].pending # <<>>)
        => LET pending == admin[r].pending
               body == admin[r].response
           IN  /\ ApprovalStarts(r) =
                     [i \in 1..Len(pending) |-> Event("start", DevicesApprove(pending[i]))]
               /\ body.status = 200
               /\ \A i \in 1..Len(pending) :
                     TimesIn(body.approved, pending[i]) + TimesIn(FailedIds(body), pending[i]) = 1
               /\ Len(body.approved) + Len(body.failed) = Len(pending)

\* the approval of the first device threw before its command was started, and
\* the second device was approved all the same
C40_Witness ==
    /\ admin[1].kind = "approveAll" /\ admin[1].pc = "done"
    /\ Len(admin[1].pending) = 2
    /\ \A i \in 1..Len(procs) :
          procs[i].command # CliCommand(DevicesApprove(admin[1].pending[1]))
    /\ FailedIds(admin[1].response) = <<admin[1].pending[1]>>
    /\ admin[1].response.approved = <<admin[1].pending[2]>>

====
